---- MODULE Spec2Model ----
(***************************************************************************)
(* A model of pddlenv: the grounded predicate/action model of              *)
(* pddlenv/base.py (STRIPS apply/applicable, effect post-processing,       *)
(* grounding with static-literal pruning, static predicates, the cached    *)
(* grounded_actions), the transition function and environment of           *)
(* pddlenv/env.py, and the plan search of pddlenv/search.                  *)
(***************************************************************************)
EXTENDS Integers, Sequences, FiniteSets, TLC

(***************************************************************************)
(* Bounds of the model.                                                    *)
(***************************************************************************)
\* largest number of literals in an initial fact set
MaxInitLits == 2
\* largest number of objects a problem has besides cat, hat and house
MaxExtraObjects == 1
\* largest value given to evaluation_limit and expansion_limit
MaxLimit == 2
\* largest number of slots in the literals given to compute_indices
MaxSlots == 2
\* largest length of the arrays given to unravel_literal_indices
MaxFlatLen == 2
\* largest number of transitions of a path of dynamics calls
MaxPathLen == 2
\* largest number of states in a parent map given to generate_plan
MaxTreeSize == 3

(***************************************************************************)
(* Generic helpers.                                                        *)
(***************************************************************************)
Range(s) == {s[i] : i \in DOMAIN s}

RECURSIVE Flatten(_)
\* itertools.chain(*seqs): the concatenation of a sequence of sequences
Flatten(seqs) ==
    IF seqs = <<>> THEN <<>> ELSE Head(seqs) \o Flatten(Tail(seqs))

RECURSIVE Product(_)
\* itertools.product(*seqs): the tuples in lexicographic order of positions,
\* the rightmost position advancing fastest
Product(seqs) ==
    IF seqs = <<>> THEN << <<>> >>
    ELSE LET rest == Product(Tail(seqs))
             hd == Head(seqs)
         IN Flatten([i \in DOMAIN hd |->
                        [j \in DOMAIN rest |-> <<hd[i]>> \o rest[j]]])

(***************************************************************************)
(* Objects and types.  A PDDLObject is a str whose class is its type;      *)
(* objects compare, hash and sort as their names.                          *)
(***************************************************************************)
\* the object names of the model, in Python's ascending str order
SortedNames == <<"cat", "cat2", "hat", "house", "house2">>

AllObjects == Range(SortedNames)

\* type(o) of each object
ObjType ==
    [o \in AllObjects |->
        CASE o \in {"cat", "cat2"} -> "Cat"
          [] o = "hat" -> "Hat"
          [] OTHER -> "House"]

\* the base class of each type made by define_object_type(name)
TypeParent == [t \in {"Cat", "Hat", "House"} |-> "object"]

\* sorted(objects): the names of a set in ascending order
SortedObjects(S) == SelectSeq(SortedNames, LAMBDA o : o \in S)

\* TypeObjectMap.typemap: the objects whose exact type is t
TypeMap(objects, t) == {o \in objects : ObjType[o] = t}

\* TypeObjectMap._subtypes: the registered direct subtypes of t
SubTypes(objects, t) ==
    {u \in {ObjType[o] : o \in objects} : TypeParent[u] = t}

\* TypeObjectMap.__getitem__ for one type: its bucket and, the hierarchy
\* being one level deep, the buckets of its registered subtypes
LookupType(objects, t) ==
    TypeMap(objects, t)
        \cup UNION {TypeMap(objects, u) : u \in SubTypes(objects, t)}

\* TypeObjectMap.__getitem__ for a collection of types: sorted, deduplicated
ObjectMapGet(objects, types) ==
    SortedObjects(UNION {LookupType(objects, t) : t \in Range(types)})

(***************************************************************************)
(* Predicates and grounded literals.  A grounded literal is the string     *)
(* "(Name o1 o2)"; it is modelled by the pair that determines the string.  *)
(***************************************************************************)
\* the predicate classes of the toy domain: the allowed types per position
PredTypes ==
    [In |-> << <<"Cat">>, <<"Hat">> >>,
     Out |-> << <<"Cat">>, <<"House">> >>,
     Clean |-> << <<"House">> >>,
     Dirty |-> << <<"House">> >>,
     ParentsHappy |-> << <<"House">> >>]

Predicates == DOMAIN PredTypes

Lit(p, objs) == [pred |-> p, objects |-> objs]

\* every well-typed grounded literal over a set of objects
LiteralsOver(objects) ==
    {Lit(p, objs) : p \in {"Clean", "Dirty", "ParentsHappy"},
                    objs \in {<<h>> : h \in TypeMap(objects, "House")}}
    \cup {Lit("Out", <<c, h>>) : c \in TypeMap(objects, "Cat"),
                                  h \in TypeMap(objects, "House")}
    \cup {Lit("In", <<c, h>>) : c \in TypeMap(objects, "Cat"),
                                 h \in TypeMap(objects, "Hat")}

(***************************************************************************)
(* Action schemas, as given to define_action.                              *)
(***************************************************************************)
Var(n, t) == [name |-> n, types |-> <<t>>]

CleanHouse ==
    [name |-> "CleanHouse",
     variables |-> <<Var("?c", "Cat"), Var("?h", "House")>>,
     preconditions |-> << <<"Dirty", <<"?h">> >>, <<"Out", <<"?c", "?h">> >> >>,
     add_effects |-> << <<"ParentsHappy", <<"?h">> >>, <<"Clean", <<"?h">> >> >>,
     del_effects |-> << <<"Dirty", <<"?h">> >> >>]

LetIn ==
    [name |-> "LetIn",
     variables |-> <<Var("?c", "Cat"), Var("?hat", "Hat"), Var("?h", "House")>>,
     preconditions |-> << <<"Out", <<"?c", "?h">> >>, <<"In", <<"?c", "?hat">> >> >>,
     add_effects |-> << <<"Dirty", <<"?h">> >> >>,
     del_effects |-> << <<"ParentsHappy", <<"?h">> >>, <<"Clean", <<"?h">> >>,
                        <<"Out", <<"?c", "?h">> >> >>]

RemoveCat ==
    [name |-> "RemoveCat",
     variables |-> <<Var("?c", "Cat"), Var("?hat", "Hat")>>,
     preconditions |-> << <<"In", <<"?c", "?hat">> >> >>,
     add_effects |-> <<>>,
     del_effects |-> << <<"In", <<"?c", "?hat">> >> >>]

\* a move between two houses that dirties the house moved to: its add and
\* delete templates instantiate to the same literals when both house
\* variables are bound to one house
MoveCat ==
    [name |-> "MoveCat",
     variables |-> <<Var("?c", "Cat"), Var("?from", "House"), Var("?to", "House")>>,
     preconditions |-> << <<"Out", <<"?c", "?from">> >> >>,
     add_effects |-> << <<"Out", <<"?c", "?to">> >>, <<"Dirty", <<"?to">> >> >>,
     del_effects |-> << <<"Out", <<"?c", "?from">> >>, <<"Dirty", <<"?from">> >> >>]

SchemaPool == {CleanHouse, LetIn, RemoveCat, MoveCat}

Schema(n) == CHOOSE s \in SchemaPool : s.name = n

\* the schema names of the model, in Python's ascending str order
SortedSchemaNames == <<"CleanHouse", "LetIn", "MoveCat", "RemoveCat">>

\* variable_predicate_map: each template with its variable names replaced
\* by their positions in the signature
VariablePredicateMap(signature, predicates) ==
    LET indices(n) == CHOOSE i \in DOMAIN signature : signature[i].name = n
    IN [k \in DOMAIN predicates |->
           <<predicates[k][1],
             [j \in DOMAIN predicates[k][2] |-> indices(predicates[k][2][j])]>>]

\* Action.__init_subclass__: the class attributes of an action class
ActionClass(s) ==
    [name |-> s.name,
     types |-> [i \in DOMAIN s.variables |-> s.variables[i].types],
     pre_predicates |-> VariablePredicateMap(s.variables, s.preconditions),
     add_predicates |-> VariablePredicateMap(s.variables, s.add_effects),
     del_predicates |-> VariablePredicateMap(s.variables, s.del_effects)]

(***************************************************************************)
(* Static predicates and problems.                                         *)
(***************************************************************************)
\* _predicates_from_effect: the predicate classes of an effect template list
PredicatesFromEffect(effect) == {effect[k][1] : k \in DOMAIN effect}

\* find_static_predicates looking at the add effects alone
FindStaticPredicatesAddOnly(actions, predicates) ==
    predicates \ UNION {PredicatesFromEffect(ActionClass(Schema(a)).add_predicates)
                           : a \in actions}

\* find_static_predicates(actions, predicates)
FindStaticPredicates(actions, predicates) ==
    LET add_preds == UNION {PredicatesFromEffect(ActionClass(Schema(a)).add_predicates)
                               : a \in actions}
        del_preds == UNION {PredicatesFromEffect(ActionClass(Schema(a)).del_predicates)
                               : a \in actions}
    IN predicates \ (add_preds \cup del_preds)

NoProblem == [none |-> TRUE]

\* a problem whose action classes are kept in the order declared
MakeProblemUnsorted(declared, objects, goal, static_literals) ==
    [actions |-> declared,
     static_predicates |-> FindStaticPredicates(Range(declared), Predicates),
     objects |-> objects,
     goal |-> goal,
     static_literals |-> static_literals]

\* Problem.__init_subclass__ and Problem.__init__: a problem of the domain
\* whose action classes are declared in the order of `declared`
MakeProblem(declared, objects, goal, static_literals) ==
    [actions |-> SelectSeq(SortedSchemaNames, LAMBDA n : n \in Range(declared)),
     static_predicates |-> FindStaticPredicates(Range(declared), Predicates),
     objects |-> objects,
     goal |-> goal,
     static_literals |-> static_literals]

(***************************************************************************)
(* Grounded actions.                                                       *)
(***************************************************************************)
\* the literals a template list instantiates to for an object tuple
Instantiate(templates, objects) ==
    {Lit(templates[k][1],
         [j \in DOMAIN templates[k][2] |-> objects[templates[k][2][j]]])
        : k \in DOMAIN templates}

\* Predicate.__new__ raising InvalidAssignment for one of the precondition
\* literals of the assignment
RaisesInvalidAssignment(cls, objects, problem) ==
    /\ problem # NoProblem
    /\ \E l \in Instantiate(cls.pre_predicates, objects) :
          /\ l.pred \in problem.static_predicates
          /\ l \notin problem.static_literals

\* Action.__init__ without the STRIPS convention line
ActionInitNoStrips(cls, objects, problem) ==
    LET pre0 == Instantiate(cls.pre_predicates, objects)
        add0 == Instantiate(cls.add_predicates, objects)
        del0 == Instantiate(cls.del_predicates, objects)
        pre1 == IF problem # NoProblem THEN pre0 \ problem.static_literals ELSE pre0
    IN [name |-> cls.name,
        objects |-> objects,
        preconditions |-> pre1,
        add_effects |-> add0 \ pre1,
        del_effects |-> del0]

\* Action.__init__ with its two post-processing lines in the other order
ActionInitSwapped(cls, objects, problem) ==
    LET pre0 == Instantiate(cls.pre_predicates, objects)
        add0 == Instantiate(cls.add_predicates, objects)
        del0 == Instantiate(cls.del_predicates, objects)
        pre1 == IF problem # NoProblem THEN pre0 \ problem.static_literals ELSE pre0
        add1 == add0 \ pre1
    IN [name |-> cls.name,
        objects |-> objects,
        preconditions |-> pre1,
        add_effects |-> add1,
        del_effects |-> del0 \ add1]

\* Action.__init__: the grounded action of class cls for an object tuple
ActionInit(cls, objects, problem) ==
    LET pre0 == Instantiate(cls.pre_predicates, objects)
        add0 == Instantiate(cls.add_predicates, objects)
        del0 == Instantiate(cls.del_predicates, objects)
        pre1 == IF problem # NoProblem THEN pre0 \ problem.static_literals ELSE pre0
        del1 == del0 \ add0
        add1 == add0 \ pre1
    IN [name |-> cls.name,
        objects |-> objects,
        preconditions |-> pre1,
        add_effects |-> add1,
        del_effects |-> del1]

\* ground ended by the first InvalidAssignment instead of skipping it
GroundStopAtInvalid(cls, problem) ==
    LET possible_values == [i \in DOMAIN cls.types |->
                               ObjectMapGet(problem.objects, cls.types[i])]
        assignments == Product(possible_values)
        raising == {k \in DOMAIN assignments :
                       RaisesInvalidAssignment(cls, assignments[k], problem)}
        kept == IF raising = {} THEN assignments
                ELSE SubSeq(assignments, 1,
                            (CHOOSE k \in raising : \A j \in raising : k <= j) - 1)
    IN [i \in DOMAIN kept |-> ActionInit(cls, kept[i], problem)]

\* Action.ground: the grounded actions of one class, in enumeration order
Ground(cls, problem) ==
    LET possible_values == [i \in DOMAIN cls.types |->
                               ObjectMapGet(problem.objects, cls.types[i])]
        assignments == Product(possible_values)
        kept == SelectSeq(assignments,
                          LAMBDA a : ~RaisesInvalidAssignment(cls, a, problem))
    IN [i \in DOMAIN kept |-> ActionInit(cls, kept[i], problem)]

\* Problem.grounded_actions, as computed on first access
ComputeGroundedActions(problem) ==
    Flatten([i \in DOMAIN problem.actions |->
                Ground(ActionClass(Schema(problem.actions[i])), problem)])

\* applicable as soon as one precondition holds
ApplicableAny(a, literals) ==
    a.preconditions = {} \/ a.preconditions \cap literals # {}

\* Action.applicable
Applicable(a, literals) == a.preconditions \subseteq literals

\* apply without the delete effects
ApplyKeepDeleted(a, literals) == literals \cup a.add_effects

\* Action.apply
Apply(a, literals) == (literals \ a.del_effects) \cup a.add_effects

\* Problem.goal_satisfied
GoalSatisfied(problem, literals) == problem.goal \subseteq literals

\* Problem.valid_actions, over the grounded actions tuple
ValidActions(grounded, literals) ==
    SelectSeq(grounded, LAMBDA a : Applicable(a, literals))

\* what cls(*objects, problem=problem) gives its caller
NewAction(cls, objects, problem) ==
    IF Len(cls.types) # Len(objects)
    THEN [raised |-> "ValueError"]
    ELSE IF RaisesInvalidAssignment(cls, objects, problem)
    THEN [raised |-> "InvalidAssignment"]
    ELSE [raised |-> "no", action |-> ActionInit(cls, objects, problem)]

\* what pred(*objects) or pred(*objects, problem=problem) gives its caller
NewLiteral(p, objects, problem) ==
    IF Len(objects) # Len(PredTypes[p])
    THEN [raised |-> "ValueError"]
    ELSE IF /\ problem # NoProblem
            /\ p \in problem.static_predicates
            /\ Lit(p, objects) \notin problem.static_literals
    THEN [raised |-> "InvalidAssignment"]
    ELSE [raised |-> "no", literal |-> Lit(p, objects)]

(***************************************************************************)
(* The transition function and the environment (pddlenv/env.py).           *)
(***************************************************************************)
\* PDDLDynamics.__call__: InvalidAction, or the timestep's observation
DynamicsCall(literals, action) ==
    IF ~Applicable(action, literals)
    THEN [raised |-> TRUE, observation |-> literals]
    ELSE [raised |-> FALSE, observation |-> Apply(action, literals)]

\* step assigning the successor before the preconditions are looked at
EnvStepAssignFirst(state, action) ==
    [raised |-> ~Applicable(action, state), state |-> Apply(action, state)]

\* PDDLEnv.step: whether it raised, and PDDLEnv.state after the call
EnvStep(state, action) ==
    LET timestep == DynamicsCall(state, action)
    IN IF timestep.raised
       THEN [raised |-> TRUE, state |-> state]
       ELSE [raised |-> FALSE, state |-> timestep.observation]

\* PDDLDynamics.sample_transitions: zip(actions, next states) of the valid
\* actions of a state
SampleTransitions(grounded, literals) ==
    LET actions == ValidActions(grounded, literals)
    IN [i \in DOMAIN actions |->
           [action |-> actions[i],
            next_state |-> DynamicsCall(literals, actions[i]).observation]]

(***************************************************************************)
(* heapq on a list of Candidate(heuristic, state), which compare by their  *)
(* heuristic alone.  Positions are the 0-based positions of the list.      *)
(***************************************************************************)
Candidate(h, state) == [heuristic |-> h, state |-> state]

RECURSIVE SiftDownLoop(_, _, _, _)
SiftDownLoop(heap, startpos, pos, newitem) ==
    IF pos > startpos
    THEN LET parentpos == (pos - 1) \div 2
             parent == heap[parentpos + 1]
         IN IF newitem.heuristic < parent.heuristic
            THEN SiftDownLoop([heap EXCEPT ![pos + 1] = parent],
                              startpos, parentpos, newitem)
            ELSE [heap EXCEPT ![pos + 1] = newitem]
    ELSE [heap EXCEPT ![pos + 1] = newitem]

\* heapq._siftdown
SiftDown(heap, startpos, pos) == SiftDownLoop(heap, startpos, pos, heap[pos + 1])

\* heapq.heappush
HeapPush(heap, item) == SiftDown(Append(heap, item), 0, Len(heap))

RECURSIVE SiftUpLoop(_, _, _)
SiftUpLoop(heap, pos, childpos) ==
    IF childpos < Len(heap)
    THEN LET rightpos == childpos + 1
             c == IF /\ rightpos < Len(heap)
                     /\ ~(heap[childpos + 1].heuristic < heap[rightpos + 1].heuristic)
                  THEN rightpos ELSE childpos
         IN SiftUpLoop([heap EXCEPT ![pos + 1] = heap[c + 1]], c, 2 * c + 1)
    ELSE <<heap, pos>>

\* heapq._siftup
SiftUp(heap, pos) ==
    LET newitem == heap[pos + 1]
        r == SiftUpLoop(heap, pos, 2 * pos + 1)
    IN SiftDown([r[1] EXCEPT ![r[2] + 1] = newitem], pos, r[2])

\* heapq.heappop: the smallest item, and the heap left
HeapPop(heap) ==
    LET lastelt == heap[Len(heap)]
        rest == SubSeq(heap, 1, Len(heap) - 1)
    IN IF rest # <<>>
       THEN [item |-> rest[1], heap |-> SiftUp([rest EXCEPT ![1] = lastelt], 0)]
       ELSE [item |-> lastelt, heap |-> rest]

(***************************************************************************)
(* Plans and paths (pddlenv/search/utils.py).  A parent map sends a state  *)
(* to <<>> (None) or to the tuple <<predecessor, action>>.                 *)
(***************************************************************************)
Reverse(s) == [i \in 1..Len(s) |-> s[Len(s) + 1 - i]]

RECURSIVE PlanBackwardToChildOfRoot(_, _)
\* the walk that stops one entry early, at the state whose predecessor is
\* the root
PlanBackwardToChildOfRoot(state, parents) ==
    IF state \notin DOMAIN parents \/ parents[state] = <<>>
    THEN <<>>
    ELSE IF parents[parents[state][1]] = <<>>
    THEN <<>>
    ELSE <<parents[state][2]>>
            \o PlanBackwardToChildOfRoot(parents[state][1], parents)

RECURSIVE PlanBackward(_, _)
\* the while loop of generate_plan: the actions in the order appended
PlanBackward(state, parents) ==
    IF state \notin DOMAIN parents \/ parents[state] = <<>>
    THEN <<>>
    ELSE <<parents[state][2]>> \o PlanBackward(parents[state][1], parents)

\* generate_plan without plan.reverse()
GeneratePlanNoReverse(end_state, parents) == PlanBackward(end_state, parents)

\* generate_plan
GeneratePlan(end_state, parents) == Reverse(PlanBackward(end_state, parents))

RECURSIVE GeneratePath(_, _)
\* generate_path: the states visited, up to an InvalidAction if one is raised
GeneratePath(state, plan) ==
    IF plan = <<>>
    THEN [raised |-> FALSE, path |-> <<state>>]
    ELSE LET t == DynamicsCall(state, Head(plan))
         IN IF t.raised
            THEN [raised |-> TRUE, path |-> <<state>>]
            ELSE LET r == GeneratePath(t.observation, Tail(plan))
                 IN [raised |-> r.raised, path |-> <<state>> \o r.path]

(***************************************************************************)
(* Heuristics: the callables handed to a search.                           *)
(***************************************************************************)
Heuristics == {"blind", "goalcount", "size"}

HeuristicValue(h, literals, problem) ==
    CASE h = "blind" -> 0
      [] h = "goalcount" -> Cardinality(problem.goal \ literals)
      [] OTHER -> Cardinality(literals)

\* `if limit and limit <= count`: None and 0 are both false
LimitReached(limit, count) ==
    /\ limit # <<>>
    /\ limit[1] # 0
    /\ limit[1] <= count

\* the values of a limit argument: <<>> is None
Limits == {<<>>} \cup {<<n>> : n \in 0..MaxLimit}

(***************************************************************************)
(* The inputs of the model.                                                *)
(***************************************************************************)
\* the action classes of a domain, in the order given to define_problem
Domains ==
    {<<"LetIn", "CleanHouse">>,
     <<"CleanHouse", "LetIn", "RemoveCat">>,
     <<"MoveCat", "LetIn", "CleanHouse">>}

BaseObjects == {"cat", "hat", "house"}

ObjectSets ==
    {BaseObjects \cup extra : extra \in
        {e \in SUBSET (AllObjects \ BaseObjects) : Cardinality(e) <= MaxExtraObjects}}

Goals == {{Lit("Clean", <<"house">>)}}

\* the static literals handed to a problem: literals of In
StaticLiteralSets(objects) ==
    SUBSET {l \in LiteralsOver(objects) : l.pred = "In"}

FactSets(objects) ==
    {S \in SUBSET LiteralsOver(objects) : Cardinality(S) <= MaxInitLits}

\* the type-respecting object tuples of an action class
Assignments(cls, objects) ==
    Range(Product([i \in DOMAIN cls.types |-> ObjectMapGet(objects, cls.types[i])]))

None == [op |-> "none"]

VARIABLES
    problem,      \* the Problem instance of the session
    cache,        \* the instance's cached_property slot: <<>> before the first
                  \* access of grounded_actions, then << the tuple >>
    env_state,    \* the literals of PDDLEnv.state
    pc,           \* "idle", or "ret" while a call's result is with the caller
    ret,          \* what the last call returned or raised
    args,         \* the arguments of the search in progress
    heap,         \* its frontier
    parents,      \* its parent map
    expanded_states,
    evaluated_states,
    node,         \* the Candidate popped last
    succs,        \* zip(actions, next_states) of the expansion in progress
    idx,          \* the position of the for loop in succs
    objectmap,    \* the TypeObjectMap instance looked up last, <<>> before any
    getitem_cache \* the lru_cache of TypeObjectMap.__getitem__, shared by
                  \* all instances

coreVars == <<problem, cache, env_state>>
searchVars == <<args, heap, parents, expanded_states, evaluated_states,
                node, succs, idx>>
mapVars == <<objectmap, getitem_cache>>
vars == <<problem, cache, env_state, pc, ret, args, heap, parents,
          expanded_states, evaluated_states, node, succs, idx,
          objectmap, getitem_cache>>

NoSearch ==
    /\ args = None
    /\ heap = <<>>
    /\ parents = <<>>
    /\ expanded_states = 0
    /\ evaluated_states = 0
    /\ node = None
    /\ succs = <<>>
    /\ idx = 0

\* Problem.grounded_actions: functools.cached_property
GroundedActions == IF cache = <<>> THEN ComputeGroundedActions(problem) ELSE cache[1]

\* the grounded actions a caller can hold: those of the problem, and those
\* made without a problem
ActionUniverse ==
    Range(GroundedActions)
    \cup UNION {{ActionInit(ActionClass(Schema(n)), objs, NoProblem)
                   : objs \in Assignments(ActionClass(Schema(n)), problem.objects)}
                : n \in Range(problem.actions)}

Init ==
    /\ \E declared \in Domains, objects \in ObjectSets, goal \in Goals :
         \E static \in StaticLiteralSets(objects) :
            problem = MakeProblem(declared, objects, goal, static)
    /\ cache = <<>>
    /\ env_state \in FactSets(problem.objects)
    /\ pc = "idle"
    /\ ret = None
    /\ NoSearch
    /\ objectmap = <<>>
    /\ getitem_cache = <<>>

ResetSearch ==
    /\ args' = None
    /\ heap' = <<>>
    /\ parents' = <<>>
    /\ expanded_states' = 0
    /\ evaluated_states' = 0
    /\ node' = None
    /\ succs' = <<>>
    /\ idx' = 0

\* cls(*objects) or cls(*objects, problem=problem)
CallNewAction ==
    /\ pc = "idle"
    /\ \E n \in Range(problem.actions), with_problem \in BOOLEAN :
         LET cls == ActionClass(Schema(n))
         IN \E objs \in Assignments(cls, problem.objects) :
              ret' = [op |-> "new_action", name |-> n, objects |-> objs,
                      with_problem |-> with_problem,
                      result |-> NewAction(cls, objs,
                                    IF with_problem THEN problem ELSE NoProblem)]
    /\ pc' = "ret"
    /\ UNCHANGED <<mapVars, problem, cache, env_state, searchVars>>

\* problem.grounded_actions
CallGroundedActions ==
    /\ pc = "idle"
    /\ cache' = <<GroundedActions>>
    /\ ret' = [op |-> "grounded_actions", cached |-> cache # <<>>,
               result |-> cache'[1]]
    /\ pc' = "ret"
    /\ UNCHANGED <<mapVars, problem, env_state, searchVars>>

\* problem.valid_actions(literals) on the current literals
CallValidActions ==
    /\ pc = "idle"
    /\ cache' = <<GroundedActions>>
    /\ ret' = [op |-> "valid_actions", literals |-> env_state,
               result |-> ValidActions(cache'[1], env_state)]
    /\ pc' = "ret"
    /\ UNCHANGED <<mapVars, problem, env_state, searchVars>>

\* action.applicable(literals) on the current literals
CallApplicable ==
    /\ pc = "idle"
    /\ cache' = <<GroundedActions>>
    /\ \E a \in ActionUniverse :
         ret' = [op |-> "applicable", action |-> a, literals |-> env_state,
                 result |-> Applicable(a, env_state)]
    /\ pc' = "ret"
    /\ UNCHANGED <<mapVars, problem, env_state, searchVars>>

\* action.apply(literals) on the current literals, applicable or not
CallApply ==
    /\ pc = "idle"
    /\ cache' = <<GroundedActions>>
    /\ \E a \in ActionUniverse :
         ret' = [op |-> "apply", action |-> a, literals |-> env_state,
                 result |-> Apply(a, env_state)]
    /\ pc' = "ret"
    /\ UNCHANGED <<mapVars, problem, env_state, searchVars>>

\* env.step(action)
Step ==
    /\ pc = "idle"
    /\ cache' = <<GroundedActions>>
    /\ \E a \in ActionUniverse :
         LET r == EnvStep(env_state, a)
         IN /\ env_state' = r.state
            /\ ret' = [op |-> "step", action |-> a, before |-> env_state,
                       raised |-> r.raised]
    /\ pc' = "ret"
    /\ UNCHANGED <<mapVars, problem, searchVars>>

\* the caller goes on
Return ==
    /\ pc = "ret"
    /\ pc' = "idle"
    /\ ret' = None
    /\ ResetSearch
    /\ UNCHANGED <<mapVars, problem, cache, env_state>>

(***************************************************************************)
(* GreedyBestFirst.search and HillClimbing.search, one step per action:    *)
(* the test of `while heap`, one pass of the for loop, the exits.          *)
(***************************************************************************)
\* search(state, evaluation_limit, expansion_limit) is called on the
\* current state: the lines before the while loop
SearchStart ==
    /\ pc = "idle"
    /\ \E algo \in {"greedy", "hill"}, h \in Heuristics,
          detect_minima \in BOOLEAN,
          evaluation_limit \in Limits, expansion_limit \in Limits :
         /\ algo = "greedy" => ~detect_minima
         /\ args' = [op |-> "search", algo |-> algo, heuristic |-> h,
                     detect_minima |-> detect_minima, state |-> env_state,
                     evaluation_limit |-> evaluation_limit,
                     expansion_limit |-> expansion_limit]
    /\ expanded_states' = 0
    /\ evaluated_states' = 0
    /\ heap' = <<Candidate(0, env_state)>>
    /\ parents' = (env_state :> <<>>)
    /\ pc' = "while"
    /\ UNCHANGED <<mapVars, coreVars, ret, node, succs, idx>>

\* the pop without `heap = []`: hill climbing that forgets nothing
SearchPopKeepFrontier ==
    /\ pc = "while"
    /\ heap # <<>>
    /\ ~LimitReached(args.expansion_limit, expanded_states)
    /\ expanded_states' = expanded_states + 1
    /\ LET popped == HeapPop(heap)
       IN /\ node' = popped.item
          /\ heap' = popped.heap
          /\ cache' = <<GroundedActions>>
          /\ succs' = SampleTransitions(cache'[1], popped.item.state)
    /\ idx' = 1
    /\ pc' = "for"
    /\ UNCHANGED <<mapVars, problem, env_state, ret, args, parents, evaluated_states>>

\* the while loop is entered: the state popped and its transitions sampled
SearchPop ==
    /\ pc = "while"
    /\ heap # <<>>
    /\ ~LimitReached(args.expansion_limit, expanded_states)
    /\ expanded_states' = expanded_states + 1
    /\ LET popped == HeapPop(heap)
       IN /\ node' = popped.item
          /\ heap' = IF args.algo = "hill" THEN <<>> ELSE popped.heap
          /\ cache' = <<GroundedActions>>
          /\ succs' = SampleTransitions(cache'[1], popped.item.state)
    /\ idx' = 1
    /\ pc' = "for"
    /\ UNCHANGED <<mapVars, problem, env_state, ret, args, parents, evaluated_states>>

\* the exit without the write: `return None` straight after the loop
SearchExitSilent ==
    /\ pc = "while"
    /\ heap = <<>> \/ LimitReached(args.expansion_limit, expanded_states)
    /\ ret' = [op |-> "search", found |-> FALSE, plan |-> <<>>,
               log |-> IF heap = <<>>
                       THEN <<[expanded_states |-> expanded_states,
                               evaluated_states |-> evaluated_states]>>
                       ELSE <<>>]
    /\ pc' = "ret"
    /\ UNCHANGED <<mapVars, coreVars, searchVars>>

\* the while loop is left, by its test or by the expansion limit's break:
\* the logger is written and None returned
SearchExit ==
    /\ pc = "while"
    /\ heap = <<>> \/ LimitReached(args.expansion_limit, expanded_states)
    /\ ret' = [op |-> "search", found |-> FALSE, plan |-> <<>>,
               log |-> <<[expanded_states |-> expanded_states,
                          evaluated_states |-> evaluated_states]>>]
    /\ pc' = "ret"
    /\ UNCHANGED <<mapVars, coreVars, searchVars>>

\* the pass without the test of detect_minima: every new state is pushed
SearchEvalPushAll ==
    /\ pc = "for"
    /\ idx <= Len(succs)
    /\ ~LimitReached(args.evaluation_limit, evaluated_states)
    /\ evaluated_states' = evaluated_states + 1
    /\ LET action == succs[idx].action
           next_state == succs[idx].next_state
           next_value == HeuristicValue(args.heuristic, next_state, problem)
           is_new == next_state \notin DOMAIN parents
           pushed == is_new
       IN /\ parents' = IF is_new
                        THEN parents @@ (next_state :> <<node.state, action>>)
                        ELSE parents
          /\ heap' = IF pushed
                     THEN HeapPush(heap, Candidate(next_value, next_state))
                     ELSE heap
          /\ IF GoalSatisfied(problem, next_state)
             THEN LET plan == GeneratePlan(next_state, parents')
                  IN /\ ret' = [op |-> "search", found |-> TRUE, plan |-> plan,
                                log |-> <<[expanded_states |-> expanded_states,
                                           evaluated_states |-> evaluated_states',
                                           plan_length |-> Len(plan)]>>]
                     /\ pc' = "ret"
                     /\ idx' = idx
             ELSE /\ idx' = idx + 1
                  /\ UNCHANGED <<pc, ret>>
    /\ UNCHANGED <<mapVars, coreVars, args, expanded_states, node, succs>>

\* the pass that enters every successor, seen before or not:
\* parents[next_state] = (state, action) outside the test
SearchEvalOverwrite ==
    /\ pc = "for"
    /\ idx <= Len(succs)
    /\ ~LimitReached(args.evaluation_limit, evaluated_states)
    /\ evaluated_states' = evaluated_states + 1
    /\ LET action == succs[idx].action
           next_state == succs[idx].next_state
           next_value == HeuristicValue(args.heuristic, next_state, problem)
           is_new == next_state \notin DOMAIN parents
           pushed == /\ is_new
                     /\ \/ args.algo = "greedy"
                        \/ ~args.detect_minima
                        \/ next_value <= node.heuristic
       IN /\ parents' = IF is_new
                        THEN parents @@ (next_state :> <<node.state, action>>)
                        ELSE [parents EXCEPT ![next_state] = <<node.state, action>>]
          /\ heap' = IF pushed
                     THEN HeapPush(heap, Candidate(next_value, next_state))
                     ELSE heap
          /\ IF GoalSatisfied(problem, next_state)
             THEN LET plan == GeneratePlan(next_state, parents')
                  IN /\ ret' = [op |-> "search", found |-> TRUE, plan |-> plan,
                                log |-> <<[expanded_states |-> expanded_states,
                                           evaluated_states |-> evaluated_states',
                                           plan_length |-> Len(plan)]>>]
                     /\ pc' = "ret"
                     /\ idx' = idx
             ELSE /\ idx' = idx + 1
                  /\ UNCHANGED <<pc, ret>>
    /\ UNCHANGED <<mapVars, coreVars, args, expanded_states, node, succs>>

\* the pass that pushes the successor outside `if next_state not in parents`
SearchEvalPushSeen ==
    /\ pc = "for"
    /\ idx <= Len(succs)
    /\ ~LimitReached(args.evaluation_limit, evaluated_states)
    /\ evaluated_states' = evaluated_states + 1
    /\ LET action == succs[idx].action
           next_state == succs[idx].next_state
           next_value == HeuristicValue(args.heuristic, next_state, problem)
           is_new == next_state \notin DOMAIN parents
           pushed == /\ TRUE
                     /\ \/ args.algo = "greedy"
                        \/ ~args.detect_minima
                        \/ next_value <= node.heuristic
       IN /\ parents' = IF is_new
                        THEN parents @@ (next_state :> <<node.state, action>>)
                        ELSE parents
          /\ heap' = IF pushed
                     THEN HeapPush(heap, Candidate(next_value, next_state))
                     ELSE heap
          /\ IF GoalSatisfied(problem, next_state)
             THEN LET plan == GeneratePlan(next_state, parents')
                  IN /\ ret' = [op |-> "search", found |-> TRUE, plan |-> plan,
                                log |-> <<[expanded_states |-> expanded_states,
                                           evaluated_states |-> evaluated_states',
                                           plan_length |-> Len(plan)]>>]
                     /\ pc' = "ret"
                     /\ idx' = idx
             ELSE /\ idx' = idx + 1
                  /\ UNCHANGED <<pc, ret>>
    /\ UNCHANGED <<mapVars, coreVars, args, expanded_states, node, succs>>

\* one pass of the for loop: a successor is evaluated
SearchEval ==
    /\ pc = "for"
    /\ idx <= Len(succs)
    /\ ~LimitReached(args.evaluation_limit, evaluated_states)
    /\ evaluated_states' = evaluated_states + 1
    /\ LET action == succs[idx].action
           next_state == succs[idx].next_state
           next_value == HeuristicValue(args.heuristic, next_state, problem)
           is_new == next_state \notin DOMAIN parents
           pushed == /\ is_new
                     /\ \/ args.algo = "greedy"
                        \/ ~args.detect_minima
                        \/ next_value <= node.heuristic
       IN /\ parents' = IF is_new
                        THEN parents @@ (next_state :> <<node.state, action>>)
                        ELSE parents
          /\ heap' = IF pushed
                     THEN HeapPush(heap, Candidate(next_value, next_state))
                     ELSE heap
          /\ IF GoalSatisfied(problem, next_state)
             THEN LET plan == GeneratePlan(next_state, parents')
                  IN /\ ret' = [op |-> "search", found |-> TRUE, plan |-> plan,
                                log |-> <<[expanded_states |-> expanded_states,
                                           evaluated_states |-> evaluated_states',
                                           plan_length |-> Len(plan)]>>]
                     /\ pc' = "ret"
                     /\ idx' = idx
             ELSE /\ idx' = idx + 1
                  /\ UNCHANGED <<pc, ret>>
    /\ UNCHANGED <<mapVars, coreVars, args, expanded_states, node, succs>>

\* the for loop ends, exhausted or by the evaluation limit's break
SearchForEnd ==
    /\ pc = "for"
    /\ idx > Len(succs) \/ LimitReached(args.evaluation_limit, evaluated_states)
    /\ pc' = "while"
    /\ UNCHANGED <<mapVars, coreVars, ret, searchVars>>

Next ==
    \/ CallNewAction
    \/ CallGroundedActions
    \/ CallValidActions
    \/ CallApplicable
    \/ CallApply
    \/ Step
    \/ Return

Spec == Init /\ [][Next]_vars

(***************************************************************************)
(* The searches, called on the problems of the toy domain with one more    *)
(* house.                                                                  *)
(***************************************************************************)
SearchInit ==
    /\ Init
    /\ problem.objects = BaseObjects \cup {"house2"}
    /\ problem.static_literals = {Lit("In", <<"cat", "hat">>)}

SearchNext ==
    \/ SearchStart
    \/ SearchPop
    \/ SearchExit
    \/ SearchEval
    \/ SearchForEnd
    \/ Return

SearchSpec == SearchInit /\ [][SearchNext]_vars

\* the problems of the searches after problem.grounded_actions has been
\* read once: the cached_property slot is filled
SearchLiveInit ==
    /\ \E declared \in Domains, goal \in Goals :
          problem = MakeProblem(declared, BaseObjects \cup {"house2"}, goal,
                                {Lit("In", <<"cat", "hat">>)})
    /\ cache = <<ComputeGroundedActions(problem)>>
    /\ env_state \in FactSets(problem.objects)
    /\ pc = "idle"
    /\ ret = None
    /\ NoSearch
    /\ objectmap = <<>>
    /\ getitem_cache = <<>>

\* the searches with their loops running on: a step of a search is taken
\* whenever one is possible
SearchLiveSpec ==
    /\ SearchLiveInit
    /\ [][SearchNext]_vars
    /\ WF_vars(SearchPop \/ SearchExit \/ SearchEval \/ SearchForEnd)

(***************************************************************************)
(* TypeObjectMap instances.  __getitem__ is wrapped by functools.lru_cache: *)
(* one cache for the class, keyed by (self, key), where self hashes and    *)
(* compares by its objects tuple alone (typemap and _subtypes are          *)
(* compare=False) and the objects of the tuple compare as their names.     *)
(***************************************************************************)
\* pddltype.__bases__ for the types made by define_object_type(name, parent);
\* "object" is PDDLObject, whose base is str
TypeBases ==
    [object |-> "str", Cat |-> "object", Kitten |-> "Cat",
     House |-> "object", Unused |-> "object"]

\* issubclass(t, PDDLObject)
IsPDDLType(t) == t \in DOMAIN TypeBases

\* the type names in the order their lookups are chained
SortedTypeNames == <<"Cat", "House", "Kitten", "Unused", "object">>

\* the object names of the maps, in ascending order
SortedMapNames == <<"a", "b">>

\* the objects given to TypeObjectMap(objects): each name with its type
Typings == [Range(SortedMapNames) -> {"Cat", "Kitten", "House"}]

RECURSIVE AddToSubtypes(_, _)
\* TypeObjectMap._add_to_subtypes: pddltype registered under its parent,
\* and so on up the chain of bases that are PDDLObject types
AddToSubtypes(subtypes, pddltype) ==
    LET parent_type == TypeBases[pddltype]
    IN IF IsPDDLType(parent_type)
       THEN AddToSubtypes(
                [subtypes EXCEPT ![parent_type] = @ \cup {pddltype}], parent_type)
       ELSE subtypes

RECURSIVE RegisterTypes(_, _, _)
\* the loop of TypeObjectMap.__init__ over the objects, for _subtypes
RegisterTypes(subtypes, typing, names) ==
    IF names = <<>> THEN subtypes
    ELSE RegisterTypes(AddToSubtypes(subtypes, typing[Head(names)]),
                       typing, Tail(names))

\* TypeObjectMap.__init__
TypeObjectMapInit(typing) ==
    LET names == SelectSeq(SortedMapNames, LAMBDA o : o \in DOMAIN typing)
    IN [objects |-> names,
        typemap |-> [t \in {typing[o] : o \in DOMAIN typing} |->
                        {o \in DOMAIN typing : typing[o] = t}],
        subtypes |-> RegisterTypes([t \in DOMAIN TypeBases |-> {}], typing, names)]

\* the keys given to __getitem__: one type, or a tuple of types
TypeKey(t) == [kind |-> "type", types |-> <<t>>]
TupleKey(ts) == [kind |-> "tuple", types |-> ts]

\* self.typemap.get(key, {})
TypeMapGet(self, t) ==
    IF t \in DOMAIN self.typemap THEN self.typemap[t] ELSE {}

RECURSIVE GetItem(_, _, _)
RECURSIVE GetItems(_, _, _)
\* itertools.chain(*(self[t] for t in keys)): the objects of the lookups,
\* each of which goes through the cache, and the cache after them
GetItems(lru, self, keys) ==
    IF keys = <<>> THEN [objects |-> {}, lru |-> lru]
    ELSE LET first == GetItem(lru, self, Head(keys))
             rest == GetItems(first.lru, self, Tail(keys))
         IN [objects |-> Range(first.result) \cup rest.objects, lru |-> rest.lru]

\* TypeObjectMap.__getitem__ under its lru_cache: what the call returns or
\* raises, and the cache after the call
GetItem(lru, self, key) ==
    IF <<self.objects, key>> \in DOMAIN lru
    THEN [raised |-> "no", hit |-> TRUE, result |-> lru[<<self.objects, key>>],
          lru |-> lru]
    ELSE IF key.kind = "type" /\ ~IsPDDLType(key.types[1])
    THEN [raised |-> "TypeError", hit |-> FALSE, result |-> <<>>, lru |-> lru]
    ELSE LET found ==
                 IF key.kind = "tuple"
                 THEN GetItems(lru, self,
                               [i \in DOMAIN key.types |-> TypeKey(key.types[i])])
                 ELSE LET t == key.types[1]
                          subs == SelectSeq(SortedTypeNames,
                                            LAMBDA u : u \in self.subtypes[t])
                          below == GetItems(lru, self,
                                            [i \in DOMAIN subs |-> TypeKey(subs[i])])
                      IN [objects |-> TypeMapGet(self, t) \cup below.objects,
                          lru |-> below.lru]
             result == SelectSeq(SortedMapNames, LAMBDA o : o \in found.objects)
         IN [raised |-> "no", hit |-> FALSE, result |-> result,
             lru |-> found.lru @@ (<<self.objects, key>> :> result)]

\* the keys the callers look up
Keys ==
    {TypeKey(t) : t \in DOMAIN TypeBases \cup {"str"}}
    \cup {TupleKey(<<"Kitten", "House">>), TupleKey(<<"Cat", "Kitten">>)}

MapInit ==
    /\ problem = NoProblem
    /\ cache = <<>>
    /\ env_state = {}
    /\ pc = "idle"
    /\ ret = None
    /\ NoSearch
    /\ objectmap = <<>>
    /\ getitem_cache = <<>>

\* TypeObjectMap(objects): a new instance
NewTypeObjectMap ==
    /\ pc = "idle"
    /\ \E typing \in Typings :
         objectmap' = <<TypeObjectMapInit(typing)>>
    /\ UNCHANGED <<getitem_cache, coreVars, pc, ret, searchVars>>

\* objectmap[key] on the instance made last
CallGetItem ==
    /\ pc = "idle"
    /\ objectmap # <<>>
    /\ \E key \in Keys :
         LET r == GetItem(getitem_cache, objectmap[1], key)
         IN /\ getitem_cache' = r.lru
            /\ ret' = [op |-> "getitem", self |-> objectmap[1], key |-> key,
                       raised |-> r.raised, hit |-> r.hit, result |-> r.result]
    /\ pc' = "ret"
    /\ UNCHANGED <<objectmap, coreVars, searchVars>>

MapNext ==
    \/ NewTypeObjectMap
    \/ CallGetItem
    \/ Return

MapSpec == MapInit /\ [][MapNext]_vars

(***************************************************************************)
(* Predicates and action classes instantiated by a caller with any tuple   *)
(* of the problem's objects.                                               *)
(***************************************************************************)
\* the tuples of objects a caller can pass: up to one more than any arity
ObjectTuples(objects) ==
    UNION {[1..n -> objects] : n \in 0..4}

InstInit ==
    /\ Init
    /\ env_state = {}

\* pred(*objects) or pred(*objects, problem=problem)
CallNewLiteral ==
    /\ pc = "idle"
    /\ \E p \in Predicates, with_problem \in BOOLEAN :
         \E objs \in ObjectTuples(problem.objects) :
            ret' = [op |-> "new_literal", name |-> p, objects |-> objs,
                    with_problem |-> with_problem,
                    result |-> NewLiteral(p, objs,
                                  IF with_problem THEN problem ELSE NoProblem)]
    /\ pc' = "ret"
    /\ UNCHANGED <<mapVars, coreVars, searchVars>>

\* cls(*objects) or cls(*objects, problem=problem), for any tuple of objects
CallNewActionAnyObjects ==
    /\ pc = "idle"
    /\ \E n \in Range(problem.actions), with_problem \in BOOLEAN :
         \E objs \in ObjectTuples(problem.objects) :
            ret' = [op |-> "new_action", name |-> n, objects |-> objs,
                    with_problem |-> with_problem,
                    result |-> NewAction(ActionClass(Schema(n)), objs,
                                  IF with_problem THEN problem ELSE NoProblem)]
    /\ pc' = "ret"
    /\ UNCHANGED <<mapVars, coreVars, searchVars>>

InstNext ==
    \/ CallNewLiteral
    \/ CallNewActionAnyObjects
    \/ Return

InstSpec == InstInit /\ [][InstNext]_vars

(***************************************************************************)
(* The indexing engine (pddlenv/array/indexing.py).  A dict is modelled by *)
(* its keys in insertion order and the value at each key; an array or a    *)
(* tuple of ints by a sequence.                                            *)
(***************************************************************************)
Dict(keys, at) == [keys |-> keys, at |-> at]

\* the names of the predicate and action classes, in ascending str order
SortedClassNames ==
    <<"Clean", "CleanHouse", "Dirty", "In", "LetIn", "MoveCat", "Out",
      "ParentsHappy", "RemoveCat">>

\* cls.arity of a predicate class or an action class
Arity(name) ==
    IF name \in Predicates THEN Len(PredTypes[name])
    ELSE Len(Schema(name).variables)

\* the keys of itertools.groupby(sorted(predicates, key=arity), key=arity)
SortedArities(predicates) ==
    SelectSeq(<<0, 1, 2, 3>>, LAMBDA k : \E q \in predicates : Arity(q) = k)

\* sorted_pred of compute_indices: per arity, the classes of that arity
\* sorted by __name__ (a class's index is its position, from 0)
SortedPred(predicates) ==
    LET arities == SortedArities(predicates)
    IN Dict(arities,
            [k \in Range(arities) |->
                SelectSeq(SortedClassNames,
                          LAMBDA q : q \in predicates /\ Arity(q) = k)])

\* the index of x in {x: i for i, x in enumerate(sorted_seq)}
IndexIn(sorted_seq, x) == (CHOOSE i \in DOMAIN sorted_seq : sorted_seq[i] = x) - 1

\* the grounded action of a tuple of grounded actions as an item to index:
\* its class and its objects
AsItem(a) == Lit(a.name, a.objects)

\* _grounded_literal_index with the predicate's index put first
GroundedLiteralIndexPredFirst(literal, sorted_objects, sorted_predicates) ==
    <<IndexIn(sorted_predicates, literal.pred)>>
        \o [j \in DOMAIN literal.objects |->
               IndexIn(sorted_objects, literal.objects[j])]

\* _grounded_literal_index
GroundedLiteralIndex(literal, sorted_objects, sorted_predicates) ==
    [j \in DOMAIN literal.objects |-> IndexIn(sorted_objects, literal.objects[j])]
        \o <<IndexIn(sorted_predicates, literal.pred)>>

\* _shape_from_grouped_predicates
ShapeFromGroupedPredicates(num_objects, grouped_pred) ==
    Dict(grouped_pred.keys,
         [k \in Range(grouped_pred.keys) |->
             [j \in 1..k |-> num_objects] \o <<Len(grouped_pred.at[k])>>])

\* compute_shapes
ComputeShapes(num_objects, predicates) ==
    ShapeFromGroupedPredicates(num_objects, SortedPred(predicates))

RECURSIVE FirstSeen(_)
\* the keys of a dict filled by appending entries in order: each arity at
\* its first occurrence
FirstSeen(arities) ==
    IF arities = <<>> THEN <<>>
    ELSE LET before == FirstSeen(SubSeq(arities, 1, Len(arities) - 1))
             last == arities[Len(arities)]
         IN IF last \in Range(before) THEN before ELSE Append(before, last)

\* tuple(zip(*idx)): the columns of a non-empty list of equally long tuples
Zip(rows) == [d \in DOMAIN rows[1] |-> [n \in DOMAIN rows |-> rows[n][d]]]

\* the entries compute_indices appends, slot by slot and literal by literal
IndexEntries(literals, sorted_objects, sorted_pred) ==
    Flatten([i \in DOMAIN literals |->
                [j \in DOMAIN literals[i] |->
                    LET lit == literals[i][j]
                        arity == Arity(lit.pred)
                    IN [arity |-> arity,
                        index |-> <<i - 1>> \o GroundedLiteralIndex(
                                      lit, sorted_objects, sorted_pred.at[arity])]]])

\* compute_indices with the shapes of the arities met among the literals
ComputeIndicesShapesOfLiterals(literals, objects, predicates) ==
    LET sorted_pred == SortedPred(predicates)
        sorted_objects == SortedObjects(objects)
        entries == IndexEntries(literals, sorted_objects, sorted_pred)
        keys == FirstSeen([n \in DOMAIN entries |-> entries[n].arity])
        indices ==
            Dict(keys,
                 [k \in Range(keys) |->
                     LET of_k == SelectSeq(entries, LAMBDA e : e.arity = k)
                     IN Zip([n \in DOMAIN of_k |-> of_k[n].index])])
        met == Dict(SelectSeq(sorted_pred.keys, LAMBDA k : k \in Range(keys)),
                    sorted_pred.at)
    IN [raised |-> "no", indices |-> indices,
        shapes |-> ShapeFromGroupedPredicates(Len(sorted_objects), met)]

\* compute_indices(literals, objects, predicates)
ComputeIndices(literals, objects, predicates) ==
    IF \E i \in DOMAIN literals : \E j \in DOMAIN literals[i] :
          \/ literals[i][j].pred \notin predicates
          \/ \E o \in Range(literals[i][j].objects) : o \notin objects
    THEN [raised |-> "KeyError"]
    ELSE LET sorted_pred == SortedPred(predicates)
             sorted_objects == SortedObjects(objects)
             entries == IndexEntries(literals, sorted_objects, sorted_pred)
             keys == FirstSeen([n \in DOMAIN entries |-> entries[n].arity])
             indices ==
                 Dict(keys,
                      [k \in Range(keys) |->
                          LET of_k == SelectSeq(entries, LAMBDA e : e.arity = k)
                          IN Zip([n \in DOMAIN of_k |-> of_k[n].index])])
         IN [raised |-> "no", indices |-> indices,
             shapes |-> ShapeFromGroupedPredicates(Len(sorted_objects), sorted_pred)]

RECURSIVE Prod(_)
\* np.prod(shape)
Prod(shape) == IF shape = <<>> THEN 1 ELSE Head(shape) * Prod(Tail(shape))

RECURSIVE RavelOne(_, _, _)
\* np.ravel_multi_index for one coordinate, in C order
RavelOne(acc, coordinate, shape) ==
    IF coordinate = <<>> THEN acc
    ELSE RavelOne(acc * Head(shape) + Head(coordinate), Tail(coordinate), Tail(shape))

\* np.ravel_multi_index(columns, shape): the flat index of each entry
RavelMultiIndex(columns, shape) ==
    [n \in DOMAIN columns[1] |->
        RavelOne(0, [d \in DOMAIN columns |-> columns[d][n]], shape)]

RECURSIVE Sum(_)
\* the last element of np.cumsum(seq), 0 for an empty one
Sum(seq) == IF seq = <<>> THEN 0 ELSE Head(seq) + Sum(Tail(seq))

\* the offsets of the blocks, each including its own size
ArityOffsetsInclusive(shapes) ==
    [k \in Range(shapes.keys) |->
        Sum([j \in 1..(IndexIn(shapes.keys, k) + 1) |->
                Prod(shapes.at[shapes.keys[j]])])]

\* arity_offsets: for each arity of shapes, the sizes of the blocks of the
\* arities before it, summed
ArityOffsets(shapes) ==
    [k \in Range(shapes.keys) |->
        Sum([j \in 1..IndexIn(shapes.keys, k) |->
                Prod(shapes.at[shapes.keys[j]])])]

\* ravel_literal_indices(indices, shapes)
RavelLiteralIndices(indices, shapes) ==
    IF indices.keys = <<>>
    THEN [raised |-> "ValueError"]
    ELSE IF \E k \in Range(indices.keys) : k \notin Range(shapes.keys)
    THEN [raised |-> "KeyError"]
    ELSE IF \E k \in Range(indices.keys) :
               \E d \in 2..Len(indices.at[k]) : \E n \in DOMAIN indices.at[k][d] :
                  indices.at[k][d][n] \notin 0..(shapes.at[k][d - 1] - 1)
    THEN [raised |-> "ValueError"]
    ELSE LET arity_offsets == ArityOffsets(shapes)
             flat(k) == LET raveled == RavelMultiIndex(Tail(indices.at[k]), shapes.at[k])
                        IN [n \in DOMAIN raveled |-> raveled[n] + arity_offsets[k]]
         IN [raised |-> "no",
             batch_idx |-> Flatten([i \in DOMAIN indices.keys |->
                                       indices.at[indices.keys[i]][1]]),
             flat_idx |-> Flatten([i \in DOMAIN indices.keys |->
                                      flat(indices.keys[i])])]

RECURSIVE UnravelIndex(_, _)
\* np.unravel_index for one flat index, in C order
UnravelIndex(flat, shape) ==
    IF shape = <<>> THEN <<>>
    ELSE <<flat \div Prod(Tail(shape))>>
             \o UnravelIndex(flat % Prod(Tail(shape)), Tail(shape))

\* unravel_literal_indices((batch_idx, flat_idx), shapes): for each arity of
\* shapes whose block holds some of the flat indices, the batch indices and
\* the coordinates of those, in the order they have in the arrays
UnravelLiteralIndices(batch_idx, flat_idx, shapes) ==
    LET arity_offsets == ArityOffsets(shapes)
        InBlock(k, v) == /\ arity_offsets[k] <= v
                         /\ v < arity_offsets[k] + Prod(shapes.at[k])
        entries(k) == SelectSeq([n \in DOMAIN flat_idx |->
                                    [batch |-> batch_idx[n], flat |-> flat_idx[n]]],
                                LAMBDA e : InBlock(k, e.flat))
        keys == SelectSeq(shapes.keys, LAMBDA k : entries(k) # <<>>)
    IN Dict(keys,
            [k \in Range(keys) |->
                Zip([n \in DOMAIN entries(k) |->
                        <<entries(k)[n].batch>>
                            \o UnravelIndex(entries(k)[n].flat - arity_offsets[k],
                                            shapes.at[k])])])

\* the lists of at most two of the items
Slots(items) ==
    {<<>>} \cup {<<x>> : x \in items} \cup {<<x, y>> : x, y \in items}

\* the literals argument: up to MaxSlots slots
SlotSeqs(items) == UNION {[1..n -> Slots(items)] : n \in 0..MaxSlots}

\* the grounded actions of the classes of a domain over cat, hat and house,
\* as items
ActionItems(declared) ==
    UNION {{Lit(n, objs) : objs \in Assignments(ActionClass(Schema(n)), BaseObjects)}
              : n \in Range(declared)}

\* the predicates argument and the items that can be indexed with it: the
\* predicates of the domain with literals, or the action classes of a
\* domain with grounded actions
IndexUniverses ==
    {[predicates |-> Predicates, items |-> LiteralsOver(BaseObjects)]}
    \cup {[predicates |-> Range(d), items |-> ActionItems(d)] : d \in Domains}

\* the predicate collections whose shapes are given to unravel
PredicateSets == {Predicates, {"Clean", "Dirty", "In", "Out"}, {"In", "Out"}}

\* compute_indices(literals, objects, predicates)
CallComputeIndices ==
    /\ pc = "idle"
    /\ \E u \in IndexUniverses, objects \in ObjectSets :
         \E literals \in SlotSeqs(u.items) :
            LET r == ComputeIndices(literals, objects, u.predicates)
            IN ret' = [op |-> "compute_indices", literals |-> literals,
                       objects |-> objects, predicates |-> u.predicates,
                       raised |-> r.raised, indices |-> r.indices,
                       shapes |-> r.shapes]
    /\ pc' = "ret"
    /\ UNCHANGED <<mapVars, coreVars, searchVars>>

\* ravel_literal_indices(indices, shapes) on what compute_indices returned
CallRavel ==
    /\ pc = "ret"
    /\ ret.op = "compute_indices"
    /\ LET r == RavelLiteralIndices(ret.indices, ret.shapes)
       IN ret' = [op |-> "ravel", indices |-> ret.indices, shapes |-> ret.shapes,
                  raised |-> r.raised,
                  batch_idx |-> IF r.raised = "no" THEN r.batch_idx ELSE <<>>,
                  flat_idx |-> IF r.raised = "no" THEN r.flat_idx ELSE <<>>]
    /\ UNCHANGED <<mapVars, coreVars, pc, searchVars>>

\* unravel_literal_indices(flat_idx, shapes) on what ravel returned
CallUnravel ==
    /\ pc = "ret"
    /\ ret.op = "ravel"
    /\ ret.raised = "no"
    /\ ret' = [op |-> "unravel", indices |-> ret.indices, shapes |-> ret.shapes,
               batch_idx |-> ret.batch_idx, flat_idx |-> ret.flat_idx,
               unravelled |-> UnravelLiteralIndices(ret.batch_idx, ret.flat_idx,
                                                    ret.shapes)]
    /\ UNCHANGED <<mapVars, coreVars, pc, searchVars>>

\* ravel_literal_indices(unravelled, shapes) on what unravel returned
CallRavelAgain ==
    /\ pc = "ret"
    /\ ret.op = "unravel"
    /\ LET r == RavelLiteralIndices(ret.unravelled, ret.shapes)
       IN ret' = [op |-> "ravel_again", indices |-> ret.indices,
                  shapes |-> ret.shapes,
                  batch_idx |-> ret.batch_idx, flat_idx |-> ret.flat_idx,
                  unravelled |-> ret.unravelled, raised |-> r.raised,
                  batch_again |-> IF r.raised = "no" THEN r.batch_idx ELSE <<>>,
                  flat_again |-> IF r.raised = "no" THEN r.flat_idx ELSE <<>>]
    /\ UNCHANGED <<mapVars, coreVars, pc, searchVars>>

\* unravel_literal_indices on arrays of the caller, against the shapes of
\* cat, hat and house and a collection of predicates
CallUnravelArrays ==
    /\ pc = "idle"
    /\ \E predicates \in PredicateSets :
         LET shapes == ComputeShapes(Cardinality(BaseObjects), predicates)
             size == Sum([i \in DOMAIN shapes.keys |-> Prod(shapes.at[shapes.keys[i]])])
         IN \E n \in 0..MaxFlatLen :
              \E batch_idx \in [1..n -> 0..1], flat_idx \in [1..n -> 0..(size - 1)] :
                 ret' = [op |-> "unravel", indices |-> Dict(<<>>, <<>>),
                         shapes |-> shapes,
                         batch_idx |-> batch_idx, flat_idx |-> flat_idx,
                         unravelled |-> UnravelLiteralIndices(batch_idx, flat_idx,
                                                              shapes)]
    /\ pc' = "ret"
    /\ UNCHANGED <<mapVars, coreVars, searchVars>>

IndexNext ==
    \/ CallComputeIndices
    \/ CallRavel
    \/ CallUnravel
    \/ CallRavelAgain
    \/ CallUnravelArrays
    \/ Return

IndexSpec == MapInit /\ [][IndexNext]_vars

(***************************************************************************)
(* Transitions on EnvState objects: what a call leaves of its argument,    *)
(* and the state it returns.                                               *)
(***************************************************************************)
\* EnvState(literals, problem)
EnvState(literals, prob) == [literals |-> literals, problem |-> prob]

\* apply working in place: literals -= del_effects; literals |= add_effects
ApplyInPlace(a, literals) ==
    [argument |-> Apply(a, literals), result |-> Apply(a, literals)]

\* Action.apply as a call: the set passed in as it is after the call (the
\* operators - and | build new sets) and the set returned
ApplyCall(a, literals) ==
    [argument |-> literals, result |-> Apply(a, literals)]

\* PDDLDynamics.__call__(state, action): whether it raised InvalidAction,
\* the EnvState passed in as it is after the call, and the observation of
\* the timestep, dataclasses.replace(state, literals=next_literals)
DynamicsCallState(state, action) ==
    IF ~Applicable(action, state.literals)
    THEN [raised |-> TRUE, state |-> state, observation |-> state]
    ELSE LET applied == ApplyCall(action, state.literals)
             after == [state EXCEPT !.literals = applied.argument]
         IN [raised |-> FALSE, state |-> after,
             observation |-> [after EXCEPT !.literals = applied.result]]

\* dynamics(state, action), on the environment's state or on the
\* observation of the transition before (a path)
CallDynamics ==
    /\ \/ pc = "idle"
       \/ pc = "ret" /\ ret.op = "dynamics" /\ ~ret.raised
                      /\ ret.steps < MaxPathLen
    /\ cache' = <<GroundedActions>>
    /\ \E a \in ActionUniverse :
         LET state == IF pc = "idle" THEN EnvState(env_state, problem)
                      ELSE ret.observation
             r == DynamicsCallState(state, a)
         IN ret' = [op |-> "dynamics", action |-> a,
                    initial |-> IF pc = "idle" THEN state ELSE ret.initial,
                    steps |-> IF pc = "idle" THEN 1 ELSE ret.steps + 1,
                    state |-> state, state_after |-> r.state,
                    raised |-> r.raised, observation |-> r.observation]
    /\ pc' = "ret"
    /\ UNCHANGED <<mapVars, problem, env_state, searchVars>>

DynNext ==
    \/ CallDynamics
    \/ Return

DynSpec == Init /\ [][DynNext]_vars

(***************************************************************************)
(* generate_plan on the parent maps a caller can build: a root entered     *)
(* with None, then states entered with a predecessor already in the map.   *)
(***************************************************************************)
\* the states of the maps
TreeStates ==
    SUBSET {Lit("Dirty", <<"house">>), Lit("Clean", <<"house">>)}

\* the actions of the maps
TreeActions ==
    {ActionInit(ActionClass(Schema("CleanHouse")), <<"cat", "house">>, NoProblem),
     ActionInit(ActionClass(Schema("LetIn")), <<"cat", "hat", "house">>, NoProblem)}

\* parents = {state: None}
NewParents ==
    /\ pc = "idle"
    /\ parents = <<>>
    /\ \E state \in TreeStates : parents' = (state :> <<>>)
    /\ UNCHANGED <<mapVars, coreVars, pc, ret, args, heap, expanded_states,
                   evaluated_states, node, succs, idx>>

\* if next_state not in parents: parents[next_state] = (state, action)
AddParent ==
    /\ pc = "idle"
    /\ parents # <<>>
    /\ Cardinality(DOMAIN parents) < MaxTreeSize
    /\ \E next_state \in TreeStates \ DOMAIN parents,
          state \in DOMAIN parents, action \in TreeActions :
         parents' = parents @@ (next_state :> <<state, action>>)
    /\ UNCHANGED <<mapVars, coreVars, pc, ret, args, heap, expanded_states,
                   evaluated_states, node, succs, idx>>

\* generate_plan(end_state, parents), end_state in the map or not
CallGeneratePlan ==
    /\ pc = "idle"
    /\ parents # <<>>
    /\ \E end_state \in TreeStates :
         ret' = [op |-> "generate_plan", end_state |-> end_state,
                 plan |-> GeneratePlan(end_state, parents)]
    /\ pc' = "ret"
    /\ UNCHANGED <<mapVars, coreVars, searchVars>>

PlanNext ==
    \/ NewParents
    \/ AddParent
    \/ CallGeneratePlan
    \/ Return

PlanSpec == MapInit /\ [][PlanNext]_vars

(***************************************************************************)
(* reachable_states (pddlenv/env.py).  States are their literals; the      *)
(* stack is a deque used from its right end.                               *)
(***************************************************************************)
RECURSIVE ReachableLoop(_, _, _, _)
\* the while loop of reachable_states.  `_, _, _, next_states =
\* zip(*timesteps)` unpacks four values: zip of no timestep yields none,
\* and the assignment raises ValueError
ReachableLoop(stack, seen, grounded, prob) ==
    IF stack = <<>>
    THEN [raised |-> "no", seen |-> seen]
    ELSE LET state == stack[Len(stack)]
             popped == SubSeq(stack, 1, Len(stack) - 1)
             seen1 == seen \cup {state}
         IN IF GoalSatisfied(prob, state)
            THEN ReachableLoop(popped, seen1, grounded, prob)
            ELSE LET timesteps == SampleTransitions(grounded, state)
                 IN IF timesteps = <<>>
                    THEN [raised |-> "ValueError", seen |-> seen1]
                    ELSE LET next_states ==
                                 [i \in DOMAIN timesteps |-> timesteps[i].next_state]
                         IN ReachableLoop(
                                popped \o SelectSeq(next_states,
                                              LAMBDA t : t \notin seen1),
                                seen1, grounded, prob)

\* reachable_states(init_states)
ReachableStates(init_states, grounded, prob) ==
    ReachableLoop(init_states, {}, grounded, prob)

\* the collections of initial states: none, the current state, and the
\* current state with a second one
InitStateCollections ==
    {<<>>, <<env_state>>}
    \cup {<<env_state, {l}>> : l \in LiteralsOver(problem.objects)}

\* reachable_states(init_states)
CallReachableStates ==
    /\ pc = "idle"
    /\ cache' = <<GroundedActions>>
    /\ \E init_states \in InitStateCollections :
         LET r == ReachableStates(init_states, cache'[1], problem)
         IN ret' = [op |-> "reachable_states", init_states |-> init_states,
                    raised |-> r.raised, seen |-> r.seen]
    /\ pc' = "ret"
    /\ UNCHANGED <<mapVars, problem, env_state, searchVars>>

ReachNext ==
    \/ CallReachableStates
    \/ Return

ReachSpec == SearchInit /\ [][ReachNext]_vars

(***************************************************************************)
(* Lifted literals and actions (pddlenv/lifted.py).  A variable is a name  *)
(* with the tuple of its allowed types; a dict is a function of its keys.  *)
(***************************************************************************)
\* PDDLVariable(name, types)
PDDLVariable(n, types) == [name |-> n, types |-> types]

\* LiftedLiteral(predicate, objects)
LiftedLiteral(p, objects) == [predicate |-> p, objects |-> objects]

\* LiftedAction(name, preconditions, add_effects, del_effects)
LiftedAction(n, pre, add, del) ==
    [name |-> n, preconditions |-> pre, add_effects |-> add, del_effects |-> del]

\* the variable names of the model, in ascending order
SortedVariableNames == <<"?c", "?h", "?k">>

\* the lifted actions of the model: Tame and Likes are never an effect.
\* Pet has a variable of type Kitten met only in a static precondition;
\* Tame and Likes take a Cat
LiftedActions ==
    LET c == PDDLVariable("?c", <<"Cat">>)
        h == PDDLVariable("?h", <<"House">>)
        k == PDDLVariable("?k", <<"Kitten">>)
    IN {LiftedAction("Pet", {LiftedLiteral("Tame", <<k>>)},
                     {LiftedLiteral("Happy", <<k>>)}, {}),
        LiftedAction("Feed",
                     {LiftedLiteral("Tame", <<k>>), LiftedLiteral("Hungry", <<k>>)},
                     {LiftedLiteral("Happy", <<k>>)},
                     {LiftedLiteral("Hungry", <<k>>)}),
        LiftedAction("Adopt",
                     {LiftedLiteral("Likes", <<c, h>>), LiftedLiteral("Tame", <<c>>)},
                     {LiftedLiteral("At", <<c, h>>)}, {})}

\* Domain(name, types, predicates, actions, constants)
LiftedDomain ==
    [predicates |-> {"Tame", "Likes", "Hungry", "Happy", "At"},
     actions |-> LiftedActions]

\* Domain.static_predicates
DomainStaticPredicates(domain) ==
    domain.predicates
        \ {lit.predicate : lit \in UNION {a.add_effects \cup a.del_effects
                                              : a \in domain.actions}}

\* tuple(sorted(objects))
SortedByName(objects) == SelectSeq(SortedMapNames, LAMBDA o : o \in objects)

\* problem.objectmap[var.types], with nothing cached
ObjectMapLookup(prob, types) == GetItem(<<>>, prob.objectmap, TupleKey(types)).result

\* LiftedLiteral.assign
LiftedLiteralAssign(lit, values, prob) ==
    LET literal == Lit(lit.predicate,
                       [i \in DOMAIN lit.objects |-> values[lit.objects[i]]])
    IN IF /\ prob # NoProblem
          /\ lit.predicate \in DomainStaticPredicates(prob.domain)
          /\ literal \notin prob.static_literals
       THEN [raised |-> "InvalidAssignment", literal |-> literal]
       ELSE [raised |-> "no", literal |-> literal]

\* LiftedLiteral.valid_values: for a static predicate the columns of its
\* static literals, zipped with the variables (a variable met twice keeps
\* its last column; no static literal gives the empty dict)
LiftedLiteralValidValues(lit, prob) ==
    IF lit.predicate \in DomainStaticPredicates(prob.domain)
    THEN LET rows == {l.objects : l \in {m \in prob.static_literals
                                            : m.pred = lit.predicate}}
             last(v) == CHOOSE i \in DOMAIN lit.objects :
                           /\ lit.objects[i] = v
                           /\ \A j \in DOMAIN lit.objects :
                                 lit.objects[j] = v => j <= i
         IN IF rows = {} THEN <<>>
            ELSE [v \in Range(lit.objects) |->
                     SortedByName({r[last(v)] : r \in rows})]
    ELSE [v \in Range(lit.objects) |-> ObjectMapLookup(prob, v.types)]

\* LiftedAction.variables
LiftedActionVariables(a) ==
    LET lit_vars == UNION {Range(lit.objects) :
                              lit \in a.preconditions \cup a.add_effects
                                          \cup a.del_effects}
        names == SelectSeq(SortedVariableNames,
                           LAMBDA n : \E v \in lit_vars : v.name = n)
    IN [i \in DOMAIN names |-> CHOOSE v \in lit_vars : v.name = names[i]]

\* LiftedAction.valid_values: the lookups by type, replaced for every
\* variable of a precondition by the intersection of the values its
\* precondition literals give it
LiftedActionValidValues(a, prob) ==
    LET variables == LiftedActionVariables(a)
        giving(v) == {lit \in a.preconditions :
                         v \in DOMAIN LiftedLiteralValidValues(lit, prob)}
        precond_values(v) ==
            {o \in UNION {Range(LiftedLiteralValidValues(lit, prob)[v])
                             : lit \in giving(v)} :
                \A lit \in giving(v) :
                   o \in Range(LiftedLiteralValidValues(lit, prob)[v])}
    IN [v \in Range(variables) |->
           IF giving(v) # {}
           THEN SortedByName(precond_values(v))
           ELSE ObjectMapLookup(prob, v.types)]

\* LiftedAction.assign
LiftedActionAssign(a, values, prob) ==
    LET pre == {LiftedLiteralAssign(lit, values, prob) : lit \in a.preconditions}
    IN IF \E r \in pre : r.raised # "no"
       THEN [raised |-> "InvalidAssignment"]
       ELSE LET preconditions ==
                    {r.literal : r \in pre}
                        \ (IF prob # NoProblem THEN prob.static_literals ELSE {})
                add_effects == {LiftedLiteralAssign(lit, values, NoProblem).literal
                                   : lit \in a.add_effects}
                del_effects == {LiftedLiteralAssign(lit, values, NoProblem).literal
                                   : lit \in a.del_effects}
            IN [raised |-> "no",
                action |-> [name |-> a.name,
                            preconditions |-> preconditions,
                            add_effects |-> add_effects \ preconditions,
                            del_effects |-> del_effects \ add_effects]]

\* Lifted.ground: the assignments that did not raise InvalidAssignment, in
\* the order of itertools.product, each with the action it made
LiftedGround(a, prob) ==
    LET variables == LiftedActionVariables(a)
        valid_values == LiftedActionValidValues(a, prob)
        tuples == Product([i \in DOMAIN variables |-> valid_values[variables[i]]])
        position(v) == CHOOSE i \in DOMAIN variables : variables[i] = v
        made == [j \in DOMAIN tuples |->
                    LET assignment == [v \in Range(variables) |->
                                          tuples[j][position(v)]]
                    IN [assignment |-> assignment,
                        result |-> LiftedActionAssign(a, assignment, prob)]]
    IN SelectSeq(made, LAMBDA r : r.result.raised = "no")

\* the static literals given to a problem: literals of Tame and Likes over
\* objects their argument types admit
LiftedStaticLiterals(typing) ==
    LET cats == {o \in DOMAIN typing : typing[o] \in {"Cat", "Kitten"}}
        houses == {o \in DOMAIN typing : typing[o] = "House"}
    IN {Lit("Tame", <<o>>) : o \in cats}
       \cup {Lit("Likes", <<o, g>>) : o \in cats, g \in houses}

\* Problem(name, domain, objectmap, goal, static_literals)
LiftedProblems ==
    UNION {{[domain |-> LiftedDomain,
             objectmap |-> TypeObjectMapInit(typing),
             goal |-> {},
             static_literals |-> static]
               : static \in SUBSET LiftedStaticLiterals(typing)}
              : typing \in Typings}

LiftedInit ==
    /\ problem \in LiftedProblems
    /\ cache = <<>>
    /\ env_state = {}
    /\ pc = "idle"
    /\ ret = None
    /\ NoSearch
    /\ objectmap = <<>>
    /\ getitem_cache = <<>>

\* tuple(action.ground(problem))
CallLiftedGround ==
    /\ pc = "idle"
    /\ \E a \in problem.domain.actions :
         ret' = [op |-> "lifted_ground", action |-> a,
                 yielded |-> LiftedGround(a, problem)]
    /\ pc' = "ret"
    /\ UNCHANGED <<mapVars, coreVars, searchVars>>

LiftedNext ==
    \/ CallLiftedGround
    \/ Return

LiftedSpec == LiftedInit /\ [][LiftedNext]_vars

(***************************************************************************)
(* Episodes: an environment whose first state holds the problem's static   *)
(* literals, stepped by the problem's grounded actions.                    *)
(***************************************************************************)
StaticInit ==
    /\ Init
    /\ problem.static_literals \subseteq env_state

\* env.step(action) for an action of problem.grounded_actions
StepGrounded ==
    /\ pc = "idle"
    /\ cache' = <<GroundedActions>>
    /\ \E a \in Range(GroundedActions) :
         LET r == EnvStep(env_state, a)
         IN /\ env_state' = r.state
            /\ ret' = [op |-> "step", action |-> a, before |-> env_state,
                       raised |-> r.raised]
    /\ pc' = "ret"
    /\ UNCHANGED <<mapVars, problem, searchVars>>

\* action.applicable(literals) for an action of problem.grounded_actions
CallApplicableGrounded ==
    /\ pc = "idle"
    /\ cache' = <<GroundedActions>>
    /\ \E a \in Range(GroundedActions) :
         ret' = [op |-> "applicable", action |-> a, literals |-> env_state,
                 result |-> Applicable(a, env_state)]
    /\ pc' = "ret"
    /\ UNCHANGED <<mapVars, problem, env_state, searchVars>>

EpisodeNext ==
    \/ StepGrounded
    \/ CallApplicableGrounded
    \/ Return

EpisodeSpec == StaticInit /\ [][EpisodeNext]_vars

(***************************************************************************)
(* The properties.                                                         *)
(***************************************************************************)
\* the literals the add and delete templates of a grounded action's class
\* instantiate to for its objects, before any post-processing
RawAdd(a) == Instantiate(ActionClass(Schema(a.name)).add_predicates, a.objects)
RawDel(a) == Instantiate(ActionClass(Schema(a.name)).del_predicates, a.objects)

\* the grounded actions in the hands of the program in a state: the cached
\* tuple, and the action the last call made or was given
ActionsAtHand ==
    (IF cache = <<>> THEN {} ELSE Range(cache[1]))
    \cup (IF ret.op \in {"apply", "applicable", "step"} THEN {ret.action} ELSE {})
    \cup (IF ret.op = "new_action" /\ ret.result.raised = "no"
          THEN {ret.result.action} ELSE {})

\* C1: for every grounded action a and every fact set F, applicable or not,
\* apply(a, F) holds exactly the literals that a adds or that are in F and
\* not deleted by a: (F minus a.del_effects) union a.add_effects
C1_ApplyIsDeleteThenAdd ==
    ret.op = "apply" =>
        \A l \in LiteralsOver(AllObjects) :
            l \in ret.result <=>
                \/ l \in ret.action.add_effects
                \/ l \in ret.literals /\ l \notin ret.action.del_effects

\* an inapplicable action was applied to a fact set it deletes from
C1_Witness ==
    /\ ret.op = "apply"
    /\ ~(ret.action.preconditions \subseteq ret.literals)
    /\ ret.action.del_effects \cap ret.literals # {}
    /\ ret.action.add_effects # {}

\* C2: applicable(a, F) is true exactly when every precondition of a is in
\* F; it is true for F = a.preconditions and false for a.preconditions with
\* one element removed
C2_ApplicableIffSubset ==
    ret.op = "applicable" =>
        LET pre == ret.action.preconditions
        IN /\ ret.result <=> \A l \in pre : l \in ret.literals
           /\ ret.literals = pre => ret.result
           /\ (\E x \in pre : ret.literals = pre \ {x}) => ~ret.result

\* applicable was asked for a two-precondition action with one of them missing
C2_Witness ==
    /\ ret.op = "applicable"
    /\ ret.literals # {}
    /\ \E x \in ret.action.preconditions :
          ret.literals = ret.action.preconditions \ {x}
    /\ ~ret.result

\* C3: a step raises InvalidAction exactly when some precondition of the
\* action is missing from the state's literals, and a step that raised left
\* the environment's state as it was before the call
C3_InvalidActionKeepsState ==
    ret.op = "step" =>
        /\ ret.raised <=> ~(ret.action.preconditions \subseteq ret.before)
        /\ ret.raised => env_state = ret.before

\* a step raised for an action whose effects would have changed the state
C3_Witness ==
    /\ ret.op = "step"
    /\ ret.raised
    /\ ret.before # {}
    /\ (ret.before \ RawDel(ret.action)) \cup RawAdd(ret.action) # ret.before

\* C4: every grounded action, made with or without a problem, has disjoint
\* add and delete effects, and a literal both its add and its delete
\* templates instantiate to is not among its delete effects
C4_AddDelDisjoint ==
    \A a \in ActionsAtHand :
        /\ a.add_effects \cap a.del_effects = {}
        /\ \A l \in RawAdd(a) \cap RawDel(a) : l \notin a.del_effects

\* an action was made whose add and delete templates instantiate to a
\* common literal, which stayed among its add effects
C4_Witness ==
    /\ ret.op = "new_action"
    /\ ret.result.raised = "no"
    /\ RawAdd(ret.result.action) \cap RawDel(ret.result.action)
          \cap ret.result.action.add_effects # {}

\* C5: applied in a fact set F in which it is applicable, a grounded action
\* gives (F minus (rawDel minus rawAdd)) union rawAdd, the result of its raw
\* instantiated templates under add-wins semantics
C5_PostProcessingUnobservable ==
    /\ (ret.op = "apply" /\ ret.action.preconditions \subseteq ret.literals) =>
          ret.result = (ret.literals \ (RawDel(ret.action) \ RawAdd(ret.action)))
                          \cup RawAdd(ret.action)
    /\ (ret.op = "step" /\ ~ret.raised) =>
          env_state = (ret.before \ (RawDel(ret.action) \ RawAdd(ret.action)))
                          \cup RawAdd(ret.action)

\* an applicable action was applied one of whose raw add effects is also a
\* precondition and a raw delete effect
C5_Witness ==
    /\ ret.op = "apply"
    /\ ret.action.preconditions \subseteq ret.literals
    /\ RawAdd(ret.action) \cap RawDel(ret.action) \cap ret.action.preconditions # {}
    /\ RawAdd(ret.action) \ ret.action.add_effects # {}

\* the literals of static predicates in a fact set
StaticPart(literals) == {l \in literals : l.pred \in problem.static_predicates}

\* C8: a predicate is static exactly when no action schema of the domain
\* names it in an add or a delete effect template, and no transition changes
\* the set of static-predicate literals of the state
C8_StaticPredicatesNeverChange ==
    /\ \A p \in Predicates :
          p \in problem.static_predicates <=>
             \A i \in DOMAIN problem.actions :
                LET schema == Schema(problem.actions[i])
                IN /\ \A k \in DOMAIN schema.add_effects : schema.add_effects[k][1] # p
                   /\ \A k \in DOMAIN schema.del_effects : schema.del_effects[k][1] # p
    /\ ret.op = "step" => StaticPart(env_state) = StaticPart(ret.before)

\* a transition changed a state that holds a literal of a static predicate
C8_Witness ==
    /\ ret.op = "step"
    /\ ~ret.raised
    /\ env_state # ret.before
    /\ StaticPart(ret.before) # {}

\* the position of a name in an ascending sequence of names
Rank(names, n) == CHOOSE i \in DOMAIN names : names[i] = n

RECURSIVE LexLess(_, _)
\* tuples of objects of one length, compared position by position by name
LexLess(xs, ys) ==
    /\ xs # <<>>
    /\ \/ Rank(SortedNames, Head(xs)) < Rank(SortedNames, Head(ys))
       \/ Head(xs) = Head(ys) /\ LexLess(Tail(xs), Tail(ys))

\* schemas in ascending name order, the assignments of one schema in the
\* order of the cartesian product of sorted value domains
OrderedBySchemaThenAssignment(grounded) ==
    \A i, j \in DOMAIN grounded :
        i < j =>
            \/ Rank(SortedSchemaNames, grounded[i].name)
                  < Rank(SortedSchemaNames, grounded[j].name)
            \/ /\ grounded[i].name = grounded[j].name
               /\ LexLess(grounded[i].objects, grounded[j].objects)

\* C9: once grounded_actions has been computed it never changes, whatever
\* is called afterwards, every access returns that tuple, and the tuple is
\* ordered by schema name and then by assignment
C9_GroundedActionsStable ==
    [][/\ cache # <<>> => cache' = cache
       /\ ret'.op = "grounded_actions" =>
             /\ ret'.result = cache'[1]
             /\ OrderedBySchemaThenAssignment(ret'.result)]_vars

\* grounded_actions was read again after the state had moved on, and holds
\* several actions of one schema
C9_Witness ==
    /\ ret.op = "grounded_actions"
    /\ ret.cached
    /\ env_state # {}
    /\ \E i, j \in DOMAIN ret.result :
          i # j /\ ret.result[i].name = ret.result[j].name

\* the toy problem of the test fixture
DummyProblem ==
    MakeProblem(<<"CleanHouse", "LetIn", "RemoveCat">>, {"cat", "hat", "house"},
                {Lit("Clean", <<"house">>)}, {Lit("In", <<"cat", "hat">>)})

\* C10: the toy Cat/Hat/House problem has exactly 2 grounded actions, and
\* exactly 1 of them is valid in {Clean(house), Out(cat, house)}
C10_DummyProblemCounts ==
    problem = DummyProblem =>
        /\ ret.op = "grounded_actions" => Len(ret.result) = 2
        /\ (/\ ret.op = "valid_actions"
            /\ ret.literals = {Lit("Clean", <<"house">>), Lit("Out", <<"cat", "house">>)})
              => Len(ret.result) = 1

\* C6: a plan returned by GreedyBestFirst.search or HillClimbing.search,
\* replayed from the initial state by generate_path, raises no
\* InvalidAction, starts at the initial state and ends in a goal state
C6_ReturnedPlanReplaysToGoal ==
    (ret.op = "search" /\ ret.found) =>
        LET replay == GeneratePath(args.state, ret.plan)
        IN /\ ~replay.raised
           /\ Len(replay.path) = Len(ret.plan) + 1
           /\ replay.path[1] = args.state
           /\ problem.goal \subseteq replay.path[Len(replay.path)]

\* a search returned a plan of two or more actions
C6_Witness ==
    /\ ret.op = "search"
    /\ ret.found
    /\ Len(ret.plan) >= 2

RECURSIVE ShortestFrom(_, _, _)
\* the length of a shortest solution by breadth-first layers, -1 if none
ShortestFrom(layer, seen, depth) ==
    IF \E literals \in layer : GoalSatisfied(problem, literals)
    THEN depth
    ELSE LET next == {Apply(a, literals) :
                         <<a, literals>> \in
                            {<<b, l>> \in Range(GroundedActions) \X layer :
                                Applicable(b, l)}} \ seen
         IN IF next = {} THEN -1
            ELSE ShortestFrom(next, seen \cup next, depth + 1)

ShortestSolutionLength(literals) == ShortestFrom({literals}, {literals}, 0)

\* C7: without limits, GreedyBestFirst.search returns a plan exactly when
\* the shortest solution from the initial state has a length above 0; it
\* returns None when no goal state can be reached and when the initial
\* state satisfies the goal
C7_PlanIffPositiveLength ==
    (/\ ret.op = "search"
     /\ args.algo = "greedy"
     /\ args.evaluation_limit = <<>>
     /\ args.expansion_limit = <<>>) =>
        (ret.found <=> ShortestSolutionLength(args.state) > 0)

\* the types a lookup of t covers: t and its descendants
RECURSIVE IsDescendantOrSelf(_, _)
IsDescendantOrSelf(u, t) ==
    \/ u = t
    \/ IsPDDLType(u) /\ IsDescendantOrSelf(TypeBases[u], t)

\* the objects of a map whose type is one of the types of a key or a
\* descendant of one, in ascending order
ObjectsOfTypes(self, key) ==
    SelectSeq(self.objects,
              LAMBDA o : \E u \in DOMAIN self.typemap :
                            /\ o \in self.typemap[u]
                            /\ \E t \in Range(key.types) : IsDescendantOrSelf(u, t))

\* C11: a lookup of a type or of a tuple of types returns exactly the
\* objects of the map whose type is one of them or a descendant of one,
\* each once and in ascending order, and raises nothing; it is empty for a
\* type with no registered object and no registered subtype
C11_LookupReturnsObjectsOfType ==
    (/\ ret.op = "getitem"
     /\ \A t \in Range(ret.key.types) : IsPDDLType(t)) =>
        /\ ret.raised = "no"
        /\ ret.result = ObjectsOfTypes(ret.self, ret.key)

\* the assignments Action.ground enumerates for a schema of the problem
Enumerated(n) ==
    LET cls == ActionClass(Schema(n))
    IN Product([i \in DOMAIN cls.types |->
                   ObjectMapGet(problem.objects, cls.types[i])])

\* every static-predicate precondition literal of schema n under an
\* assignment is one of the problem's static literals
StaticPreconditionsKnown(n, assignment) ==
    \A l \in Instantiate(ActionClass(Schema(n)).pre_predicates, assignment) :
        l.pred \in problem.static_predicates => l \in problem.static_literals

\* the positions of the grounded actions of schema n with the given objects
YieldedFor(grounded, n, assignment) ==
    {i \in DOMAIN grounded :
        grounded[i].name = n /\ grounded[i].objects = assignment}

\* C12: grounding yields exactly one grounded action for each enumerated
\* assignment whose static-predicate precondition literals are all among
\* the problem's static literals and nothing for any other assignment, also
\* for the assignments enumerated after a skipped one
C12_GroundSkipsInvalidAssignments ==
    ret.op = "grounded_actions" =>
        \A n \in Range(problem.actions) :
            \A k \in DOMAIN Enumerated(n) :
                Cardinality(YieldedFor(ret.result, n, Enumerated(n)[k]))
                    = IF StaticPreconditionsKnown(n, Enumerated(n)[k]) THEN 1 ELSE 0

\* a schema was grounded for which an assignment was skipped and a later
\* one yielded
C12_Witness ==
    /\ ret.op = "grounded_actions"
    /\ \E n \in Range(problem.actions) :
          \E j, k \in DOMAIN Enumerated(n) :
              /\ j < k
              /\ ~StaticPreconditionsKnown(n, Enumerated(n)[j])
              /\ YieldedFor(ret.result, n, Enumerated(n)[j]) = {}
              /\ YieldedFor(ret.result, n, Enumerated(n)[k]) # {}

\* the allowed type sets of the argument positions of what a call
\* instantiates: a predicate's types or an action class's types
AllowedTypes(call) ==
    IF call.op = "new_literal" THEN PredTypes[call.name]
    ELSE ActionClass(Schema(call.name)).types

\* some object of the call is of a type outside the allowed type set of
\* its position (the types of the model have no subtypes)
TypeIncompatible(call) ==
    /\ Len(call.objects) = Len(AllowedTypes(call))
    /\ \E i \in DOMAIN call.objects :
          ObjType[call.objects[i]] \notin Range(AllowedTypes(call)[i])

\* C13: instantiating a predicate or an action schema with an object whose
\* type is outside the allowed type set of its position raises an error,
\* and the error is not InvalidAssignment
C13_TypeMismatchFailsFast ==
    (ret.op \in {"new_literal", "new_action"} /\ TypeIncompatible(ret)) =>
        ret.result.raised \notin {"no", "InvalidAssignment"}

\* the entries of a coordinate dict in the order ravel walks them: the arity
\* and the coordinate, without its batch index, of each
EntriesOf(indices) ==
    Flatten([i \in DOMAIN indices.keys |->
                LET columns == indices.at[indices.keys[i]]
                IN [n \in DOMAIN columns[1] |->
                       [arity |-> indices.keys[i],
                        coordinate |-> [d \in 1..(Len(columns) - 1) |->
                                           columns[d + 1][n]]]]])

\* C14: for the coordinates compute_indices returns, ravelling raises
\* nothing and sends distinct (arity, coordinate) pairs to distinct flat
\* offsets, unravelling the result gives back the coordinates of each arity
\* in their order, and ravelling those again gives the same batch and flat
\* arrays
C14_RavelUnravelRoundTrip ==
    /\ ret.op = "ravel" =>
          /\ ret.raised = "no"
          /\ \A n, m \in DOMAIN ret.flat_idx :
                EntriesOf(ret.indices)[n] # EntriesOf(ret.indices)[m]
                    => ret.flat_idx[n] # ret.flat_idx[m]
    /\ (ret.op \in {"unravel", "ravel_again"} /\ ret.indices.keys # <<>>) =>
          /\ Range(ret.unravelled.keys) = Range(ret.indices.keys)
          /\ \A k \in Range(ret.indices.keys) :
                ret.unravelled.at[k] = ret.indices.at[k]
    /\ (ret.op = "ravel_again" /\ ret.indices.keys # <<>>) =>
          /\ ret.raised = "no"
          /\ ret.batch_again = ret.batch_idx
          /\ ret.flat_again = ret.flat_idx

\* the shapes table {1: (3, 2), 2: (3, 3, 2)}
MissingArityShapes == Dict(<<1, 2>>, << <<3, 2>>, <<3, 3, 2>> >>)

\* the first and last flat offset of the block of an arity: the blocks
\* follow each other from 0 in the order of the shapes table
BlockStart(shapes, k) ==
    Sum([j \in 1..((CHOOSE i \in DOMAIN shapes.keys : shapes.keys[i] = k) - 1) |->
            Prod(shapes.at[shapes.keys[j]])])
BlockEnd(shapes, k) == BlockStart(shapes, k) + Prod(shapes.at[k]) - 1

C16_ShapesDependOnUniverseOnly ==
    ret.op = "compute_indices" =>
        /\ ret.raised = "no"
        /\ Range(ret.shapes.keys) = {Arity(q) : q \in ret.predicates}
        /\ \A k \in Range(ret.shapes.keys) :
              /\ Len(ret.shapes.at[k]) = k + 1
              /\ \A d \in 1..k : ret.shapes.at[k][d] = Cardinality(ret.objects)
              /\ ret.shapes.at[k][k + 1]
                    = Cardinality({q \in ret.predicates : Arity(q) = k})
        /\ (\A i \in DOMAIN ret.literals : ret.literals[i] = <<>>)
              => ret.indices.keys = <<>>

\* compute_indices was given one empty slot, for predicates of two arities
C16_Witness ==
    /\ ret.op = "compute_indices"
    /\ ret.literals = << <<>> >>
    /\ ret.indices.keys = <<>>
    /\ Len(ret.shapes.keys) = 2

\* the number of objects before o in ascending order
ObjectPosition(o, objects) ==
    Cardinality({x \in objects : Rank(SortedNames, x) < Rank(SortedNames, o)})

\* the number of classes of the arity of q that come before q by name
SchemaPosition(q, predicates) ==
    Cardinality({r \in predicates :
                    /\ Arity(r) = Arity(q)
                    /\ Rank(SortedClassNames, r) < Rank(SortedClassNames, q)})

\* the literals of a literals argument with their slots, slot by slot
SlottedLiterals(literals) ==
    Flatten([i \in DOMAIN literals |->
                [j \in DOMAIN literals[i] |->
                    [slot |-> i - 1, literal |-> literals[i][j]]]])

\* C17: grouped by arity and in the order of the slots, every literal (or
\* grounded action) of slot i has the coordinate made of i, of the position
\* of each of its objects among the objects in ascending order and of the
\* position of its class among the classes of its arity in name order
C17_CoordinatesBySortedPosition ==
    ret.op = "compute_indices" =>
        LET slotted == SlottedLiterals(ret.literals)
        IN /\ Range(ret.indices.keys)
                 = {Arity(slotted[n].literal.pred) : n \in DOMAIN slotted}
           /\ \A k \in Range(ret.indices.keys) :
                 LET of_k == SelectSeq(slotted,
                                       LAMBDA e : Arity(e.literal.pred) = k)
                     columns == ret.indices.at[k]
                 IN /\ Len(columns) = k + 2
                    /\ \A d \in DOMAIN columns : Len(columns[d]) = Len(of_k)
                    /\ \A n \in DOMAIN of_k :
                          /\ columns[1][n] = of_k[n].slot
                          /\ \A d \in 1..k :
                                columns[d + 1][n]
                                   = ObjectPosition(of_k[n].literal.objects[d],
                                                    ret.objects)
                          /\ columns[k + 2][n]
                                = SchemaPosition(of_k[n].literal.pred, ret.predicates)

\* a literal was indexed in two slots, next to a literal of another arity
\* whose class is not the first of its arity
C17_Witness ==
    /\ ret.op = "compute_indices"
    /\ Len(ret.literals) = 2
    /\ \E x \in Range(ret.literals[1]) : x \in Range(ret.literals[2])
    /\ Len(ret.indices.keys) = 2
    /\ \E k \in Range(ret.indices.keys) :
          \E n \in DOMAIN ret.indices.at[k][k + 2] : ret.indices.at[k][k + 2][n] > 0

\* C18: a transition leaves the EnvState passed in, and its literals, as
\* they were; the state returned has the problem of the state passed in,
\* hence of the first state of the path, and the literals apply gives
C18_TransitionLeavesInputState ==
    ret.op = "dynamics" =>
        /\ ret.state_after = ret.state
        /\ ~ret.raised =>
              /\ ret.observation.problem = ret.state.problem
              /\ ret.observation.problem = ret.initial.problem
              /\ ret.observation.literals
                    = (ret.state.literals \ ret.action.del_effects)
                          \cup ret.action.add_effects

\* the second transition of a path changed the literals
C18_Witness ==
    /\ ret.op = "dynamics"
    /\ ~ret.raised
    /\ ret.steps >= 2
    /\ ret.observation.literals # ret.state.literals
    /\ ret.state.literals # ret.initial.literals

\* a search is in progress or has just returned, with the limit given
SearchWithLimit(limit) ==
    /\ args.op = "search"
    /\ limit # <<>>

\* C19: for an expansion_limit n >= 0, 0 included, a search of either
\* algorithm pops at most n states, and a search the limit stops returns
\* None
C19_ExpansionLimitBoundsPops ==
    /\ [](SearchWithLimit(args.expansion_limit)
             => expanded_states <= args.expansion_limit[1])
    /\ [][(/\ pc = "while"
           /\ heap # <<>>
           /\ SearchWithLimit(args.expansion_limit)
           /\ args.expansion_limit[1] <= expanded_states)
          => /\ pc' = "ret"
             /\ ~ret'.found
             /\ expanded_states' = expanded_states]_vars

\* C20: for an evaluation_limit n >= 0, 0 included, GreedyBestFirst.search
\* evaluates at most n successors; once n are evaluated no state is added
\* to the parent map or the frontier and the search returns None
C20_EvaluationLimitBoundsEvaluations ==
    /\ []((/\ args.op = "search"
           /\ args.algo = "greedy"
           /\ SearchWithLimit(args.evaluation_limit))
             => evaluated_states <= args.evaluation_limit[1])
    /\ [][(/\ pc \in {"while", "for"}
           /\ args.algo = "greedy"
           /\ SearchWithLimit(args.evaluation_limit)
           /\ args.evaluation_limit[1] <= evaluated_states)
          => /\ parents' = parents
             /\ Range(heap') \subseteq Range(heap)
             /\ pc' = "ret" => ~ret'.found]_vars

\* C21: a search writes to its logger exactly once, in the step that
\* returns, on every exit; the counters written are the numbers of pops
\* and of evaluations made, which grow by one at each pop and at each
\* evaluation and at no other step; plan_length is written exactly when a
\* plan is returned, and is its length
C21_LoggerWrittenOnceAtReturn ==
    /\ [](/\ (pc \in {"while", "for"}) => (ret = None)
          /\ (pc = "ret" /\ ret.op = "search") =>
                (/\ Len(ret.log) = 1
                 /\ ret.log[1].expanded_states = expanded_states
                 /\ ret.log[1].evaluated_states = evaluated_states
                 /\ ("plan_length" \in DOMAIN ret.log[1]) <=> ret.found
                 /\ ret.found => (ret.log[1].plan_length = Len(ret.plan))
                 /\ (args.algo = "greedy") =>
                       (expanded_states
                           = Cardinality(DOMAIN parents) - Len(heap))))
    /\ [][(pc \in {"while", "for"}) =>
            (/\ expanded_states' = expanded_states
                   + (IF pc = "while" /\ pc' = "for" THEN 1 ELSE 0)
             /\ evaluated_states' = evaluated_states
                   + (IF pc = "for" /\ (idx' = idx + 1 \/ pc' = "ret")
                      THEN 1 ELSE 0))]_vars

\* a search stopped by its expansion limit, with states left on the
\* frontier, has written its counters
C21_Witness ==
    /\ pc = "ret"
    /\ ret.op = "search"
    /\ ~ret.found
    /\ heap # <<>>
    /\ expanded_states >= 1
    /\ evaluated_states >= 2
    /\ Len(ret.log) = 1

\* a hill climbing search is between two steps of its loops
HillClimbingRuns ==
    /\ pc \in {"while", "for"}
    /\ args.algo = "hill"

\* C22: in HillClimbing.search the frontier holds only states found new in
\* the expansion in progress or just ended; the state expanded next is one
\* of them of lowest heuristic value, the frontier is emptied when it is
\* popped, and the search returns None once an expansion has pushed
\* nothing
C22_HillClimbingKeepsLastBatch ==
    /\ []((HillClimbingRuns /\ expanded_states >= 1) =>
            \A i \in DOMAIN heap :
               /\ parents[heap[i].state] # <<>>
               /\ parents[heap[i].state][1] = node.state
               /\ \E j \in DOMAIN succs : succs[j].next_state = heap[i].state)
    /\ [][(HillClimbingRuns /\ pc = "while") =>
            IF heap = <<>>
            THEN pc' = "ret" /\ ~ret'.found
            ELSE (pc' = "for" /\ expanded_states >= 1) =>
                    (/\ heap' = <<>>
                     /\ node' \in Range(heap)
                     /\ \A c \in Range(heap) : node'.heuristic <= c.heuristic
                     /\ parents[node'.state][1] = node.state)]_vars

\* the third expansion of a hill climbing search, after expansions that
\* found more new states than were expanded
C22_Witness ==
    /\ HillClimbingRuns
    /\ pc = "for"
    /\ ~args.detect_minima
    /\ expanded_states >= 3
    /\ Cardinality(DOMAIN parents) > expanded_states + Len(heap)

\* a hill climbing search with detect_minima is between two steps
DetectMinimaRuns ==
    /\ pc \in {"while", "for"}
    /\ args.algo = "hill"
    /\ args.detect_minima
    /\ expanded_states >= 1

\* C23: with detect_minima, a state is on the frontier only if its
\* heuristic value exceeds neither the value held for the state expanded
\* nor that state's own heuristic value, at the first expansion as at the
\* others; so the values of the states expanded one after the other never
\* increase
C23_DetectMinimaNeverWorsens ==
    /\ [](DetectMinimaRuns =>
            \A c \in Range(heap) :
               /\ c.heuristic <= node.heuristic
               /\ c.heuristic = HeuristicValue(args.heuristic, c.state, problem)
               /\ c.heuristic
                     <= HeuristicValue(args.heuristic, node.state, problem))
    /\ [][(DetectMinimaRuns /\ pc = "while" /\ pc' = "for") =>
            (/\ node'.heuristic <= node.heuristic
             /\ HeuristicValue(args.heuristic, node'.state, problem)
                   <= HeuristicValue(args.heuristic, node.state, problem))]_vars

\* the first expansion found a new state and refused it: the search stalls
C23_Witness ==
    /\ DetectMinimaRuns
    /\ pc = "while"
    /\ heap = <<>>
    /\ expanded_states = 1
    /\ \E t \in DOMAIN parents :
          /\ parents[t] # <<>>
          /\ HeuristicValue(args.heuristic, t, problem)
                <= HeuristicValue(args.heuristic, node.state, problem)
          /\ HeuristicValue(args.heuristic, t, problem) > node.heuristic

\* C24: on a parent map that is a tree whose root has the entry None,
\* generate_plan returns the actions of the path from the root to
\* end_state, root first, as many as end_state is deep; the plan is empty
\* when end_state is the root or is not in the map
C24_PlanIsPathFromRoot ==
    ret.op = "generate_plan" =>
        LET plan == ret.plan
            end_state == ret.end_state
        IN IF end_state \notin DOMAIN parents
           THEN plan = <<>>
           ELSE IF parents[end_state] = <<>>
           THEN plan = <<>>
           ELSE /\ Len(plan) >= 1
                /\ \E path \in [0..Len(plan) -> DOMAIN parents] :
                      /\ parents[path[0]] = <<>>
                      /\ path[Len(plan)] = end_state
                      /\ \A i \in 1..Len(plan) :
                            parents[path[i]] = <<path[i - 1], plan[i]>>

\* a plan of two different actions
C24_Witness ==
    /\ ret.op = "generate_plan"
    /\ Len(ret.plan) = 2
    /\ ret.plan[1] # ret.plan[2]
    /\ Cardinality(DOMAIN parents) = 3

\* the successors of the non-goal states of a set, by the valid actions
Successors(S) ==
    UNION {{Apply(a, t) : a \in {b \in Range(GroundedActions) : Applicable(b, t)}}
              : t \in {u \in S : ~GoalSatisfied(problem, u)}}

RECURSIVE Closure(_)
\* the least set holding S and the successors of its non-goal states
Closure(S) ==
    IF Successors(S) \subseteq S THEN S ELSE Closure(S \cup Successors(S))

\* C25: reachable_states raises nothing and returns the set of the states
\* reachable from the initial states by valid actions taken in non-goal
\* states, also when a reachable non-goal state has no valid action
C25_ReachableStatesIsClosure ==
    ret.op = "reachable_states" =>
        /\ ret.raised = "no"
        /\ ret.seen = Closure(Range(ret.init_states))

\* the assignments of objects of the allowed types to the variables of a
\* lifted action
TypeFilteredAssignments(a) ==
    LET variables == Range(LiftedActionVariables(a))
        allowed(v) == Range(ObjectsOfTypes(problem.objectmap, TupleKey(v.types)))
    IN {f \in [variables -> Range(problem.objectmap.objects)] :
           \A v \in variables : f[v] \in allowed(v)}

\* C26: every action LiftedAction.ground yields binds each variable to an
\* object of the problem whose type is one of the variable's types or a
\* descendant of one, also a variable met only in static preconditions; and
\* every assignment of objects of the allowed types that assign accepts is
\* yielded
C26_GroundRespectsVariableTypes ==
    ret.op = "lifted_ground" =>
        /\ \A j \in DOMAIN ret.yielded :
              ret.yielded[j].assignment \in TypeFilteredAssignments(ret.action)
        /\ \A f \in TypeFilteredAssignments(ret.action) :
              LiftedActionAssign(ret.action, f, problem).raised = "no"
                 => \E j \in DOMAIN ret.yielded : ret.yielded[j].assignment = f

\* the instantiated preconditions of a grounded action, nothing stripped
UnstrippedPreconditions(a) ==
    Instantiate(ActionClass(Schema(a.name)).pre_predicates, a.objects)

\* C27: in every state reached by grounded actions from a state holding
\* the problem's static literals, a grounded action is applicable by its
\* stripped preconditions exactly when all its instantiated preconditions
\* are in the state
C27_StrippingKeepsApplicability ==
    ret.op = "applicable" =>
        (ret.result <=> UnstrippedPreconditions(ret.action) \subseteq ret.literals)

RECURSIVE WalkReachesRoot(_, _)
\* following the entries from a state for at most n steps ends at the
\* initial state of the search
WalkReachesRoot(state, n) ==
    \/ state = args.state
    \/ /\ n > 0
       /\ state \in DOMAIN parents
       /\ parents[state] # <<>>
       /\ WalkReachesRoot(parents[state][1], n - 1)

\* a search is in progress or has just returned
SearchRuns ==
    /\ pc \in {"while", "for", "ret"}
    /\ args.op = "search"

\* C28: throughout a search of either algorithm the parent map is a tree
\* of valid transitions rooted at the initial state: its entry is None,
\* every state of the frontier has an entry, every other entry names a
\* predecessor of the map and an action applicable in it that gives the
\* state, every walk up the entries ends at the initial state, and no
\* entry is ever replaced
C28_ParentsIsTreeOfTransitions ==
    /\ [](SearchRuns =>
            /\ args.state \in DOMAIN parents
            /\ parents[args.state] = <<>>
            /\ \A i \in DOMAIN heap : heap[i].state \in DOMAIN parents
            /\ \A t \in DOMAIN parents \ {args.state} :
                  /\ parents[t] # <<>>
                  /\ parents[t][1] \in DOMAIN parents
                  /\ Applicable(parents[t][2], parents[t][1])
                  /\ Apply(parents[t][2], parents[t][1]) = t
                  /\ WalkReachesRoot(t, Cardinality(DOMAIN parents)))
    /\ [][(SearchRuns /\ pc' # "idle") =>
            \A t \in DOMAIN parents :
               /\ t \in DOMAIN parents'
               /\ parents'[t] = parents[t]]_vars

\* a successor already in the map, entered from another state, has just
\* been evaluated again, two levels or more below the initial state
C28_Witness ==
    /\ SearchRuns
    /\ pc = "for"
    /\ idx > 1
    /\ parents[succs[idx - 1].next_state] # <<>>
    /\ parents[succs[idx - 1].next_state][1] # node.state
    /\ parents[node.state] # <<>>
    /\ parents[node.state][1] # args.state

\* the successors of the states of a set, by the valid actions
SuccessorsOfAll(S) ==
    UNION {{Apply(a, t) : a \in {b \in Range(GroundedActions) : Applicable(b, t)}}
              : t \in S}

RECURSIVE ReachableFrom(_)
\* the states reachable from those of S
ReachableFrom(S) ==
    IF SuccessorsOfAll(S) \subseteq S THEN S
    ELSE ReachableFrom(S \cup SuccessorsOfAll(S))

\* C29: a search, with or without limits, pushes a state only when it
\* enters the parent map, so each state at most once; it pops no more
\* states than are reachable from the initial state, and it ends, with a
\* plan or with None
C29_SearchTerminates ==
    /\ [](SearchRuns =>
            /\ expanded_states <= Cardinality(ReachableFrom({args.state}))
            /\ DOMAIN parents \subseteq ReachableFrom({args.state})
            /\ \A i, j \in DOMAIN heap :
                  heap[i].state = heap[j].state => i = j)
    /\ [][(SearchRuns /\ pc = "for" /\ heap' # heap) =>
            /\ Len(heap') = Len(heap) + 1
            /\ \E t \in DOMAIN parents' \ DOMAIN parents :
                  {heap'[i].state : i \in DOMAIN heap'}
                     = {heap[i].state : i \in DOMAIN heap} \cup {t}]_vars
    /\ (pc \in {"while", "for"}) ~> (pc = "ret" /\ ret.op = "search")

\* a search without limits has popped as many states as are reachable and
\* returned None
C29_Witness ==
    /\ pc = "ret"
    /\ ret.op = "search"
    /\ ~ret.found
    /\ args.expansion_limit = <<>>
    /\ args.evaluation_limit = <<>>
    /\ expanded_states >= 3
    /\ expanded_states = Cardinality(ReachableFrom({args.state}))

\* C30: a lookup through the cache returns what the lookup computes from
\* the map's own buckets with nothing cached, whatever was looked up
\* before on this map and on others, maps of the same object names with
\* other types included
C30_MemoizedLookupIsUnmemoized ==
    (ret.op = "getitem" /\ ret.raised = "no") =>
        ret.result = GetItem(<<>>, ret.self, ret.key).result
====
